---- MODULE Spec2Model ----
(***************************************************************************)
(* Model of the Breaking Point MCP agent's core:                           *)
(*   - the on-disk result cache       (src/src/cache.py, ResultCache)      *)
(*   - the retry-with-backoff wrapper (src/src/error_handler.py)           *)
(*   - the scoped error conversion    (src/src/error_handler.py)           *)
(*   - the API call boundary          (src/src/api.py, _api_call)          *)
(*   - cache-first result retrieval   (src/src/api.py, get_test_results)   *)
(* The cache is modelled at the granularity of individual file operations  *)
(* (open, write, close, replace, remove); get is one step, except for the  *)
(* concurrent readers, whose get is one file operation per step.           *)
(***************************************************************************)
EXTENDS Integers, Sequences, FiniteSets, TLC

VARIABLES
    files,        \* the cache directory: path -> file (exists, content, mtime)
    now,          \* time.time(), in whole seconds
    ttl,          \* ResultCache.ttl
    compression,  \* ResultCache.compression of the store that is called next
    w,            \* the call of ResultCache.set in progress and its position
    lastOp,       \* the call that returned last (or the last event)
    stored,       \* per key: payload and extension of the last successful set
    r,            \* the call of a function wrapped by retry_with_backoff
    api,          \* the API client: auth_token, and the last request made
    ctx,          \* the with ErrorContext(...) blocks entered, and the exception in flight
    other,        \* whether the cache directory holds a file that is not the cache's
    gets,         \* per reading process: its call of ResultCache.get and its position
    cl,           \* the call of get_test_results in progress, and the one before
    fan,          \* the batch operation in progress: its requests and their calls
    config,       \* the entry "enabled" of the cache configuration
    inst,         \* the API client instance: its retries and retry_delay
    wt,           \* the call of run_and_analyze_tests in progress
    ws,           \* per concurrent writer of one key: its call of set and its position
    kv            \* a store seen by its keys: its entries, and the last get

cacheVars == <<files, now, ttl, compression, w, lastOp, stored>>

retryVars == <<r, api>>

\* the state of the batch operations
moreVars == <<fan, config, inst, wt, ws, kv>>

moreVarsButWs == <<fan, config, inst, wt, kv>>

auxVars == <<ctx, other, gets, cl, moreVars>>

\* the state of the cache, of the retry wrapper and of their callers
coreVars == <<cacheVars, retryVars, ctx, other, gets, cl>>

vars == <<files, now, ttl, compression, w, lastOp, stored, r, api, ctx, other,
         gets, cl, fan, config, inst, wt, ws, kv>>

----------------------------------------------------------------------------
(* Bounds                                                                  *)

MaxTime == 2
MaxTTL == 1

----------------------------------------------------------------------------
(* Payloads and their JSON text                                            *)

\* A payload is a dict, kept as the sequence of its (key, value) items in
\* insertion order; the values are the numbers 1 and 2.  NotSerializable
\* stands for a value json.dump rejects with TypeError (a set, an object).
NotSerializable == -1

P1 == << <<"v", 1>> >>
P2 == << <<"a", 1>>, <<"v", 2>> >>
EmptyPayload == << >>
BadPayload == << <<"v", NotSerializable>> >>

GoodPayloads == {P1, P2}
SetInputs == GoodPayloads \cup {EmptyPayload, BadPayload}

KeyToks == {"a", "v"}
NumToks == {"1", "2"}
\* bytes that are not valid UTF-8 text (the gzip framing is binary as well)
NonText == {"BIN", "GZH", "GZT"}

NumTok(n) == IF n = 1 THEN "1" ELSE "2"
\* a parser that reads every number as 1
TokNumOne(t) == 1
TokNum(t) == IF t = "1" THEN 1 ELSE 2

Serializable(P) == \A i \in 1..Len(P) : P[i][2] # NotSerializable

\* the chunks the JSON encoder emits for item i
ItemToks(P, i) ==
    (IF i > 1 THEN <<",">> ELSE << >>) \o <<P[i][1], ":">> \o
    (IF P[i][2] = NotSerializable THEN << >> ELSE <<NumTok(P[i][2])>>)

RECURSIVE ItemsToks(_, _, _)
ItemsToks(P, i, n) ==
    IF i > n THEN << >> ELSE ItemToks(P, i) \o ItemsToks(P, i + 1, n)

FirstBad(P) ==
    IF Serializable(P) THEN Len(P) + 1
    ELSE CHOOSE i \in 1..Len(P) :
            /\ P[i][2] = NotSerializable
            /\ \A j \in 1..(i - 1) : P[j][2] # NotSerializable

\* json.dump(data, f): the text written to f, and whether the encoder
\* finished.  On an unserializable value the text written so far stays in f.
json_dump(P) ==
    IF Serializable(P)
    THEN [ok |-> TRUE,  toks |-> <<"{">> \o ItemsToks(P, 1, Len(P)) \o <<"}">>]
    ELSE [ok |-> FALSE, toks |-> <<"{">> \o ItemsToks(P, 1, FirstBad(P))]

WellFormed(t) ==
    /\ Len(t) >= 2
    /\ t[1] = "{"
    /\ t[Len(t)] = "}"
    /\ LET body == SubSeq(t, 2, Len(t) - 1)
           n == (Len(body) + 1) \div 4
       IN  \/ Len(body) = 0
           \/ /\ (Len(body) + 1) % 4 = 0
              /\ \A j \in 1..n :
                    /\ body[4 * j - 3] \in KeyToks
                    /\ body[4 * j - 2] = ":"
                    /\ body[4 * j - 1] \in NumToks
                    /\ (j < n => body[4 * j] = ",")

\* a parser that stops after the first item
ParseItemsFirst(t) ==
    LET body == SubSeq(t, 2, Len(t) - 1)
        n == (Len(body) + 1) \div 4
    IN  [j \in 1..(IF n > 1 THEN 1 ELSE n) |-> <<body[4 * j - 3], TokNum(body[4 * j - 1])>>]
ParseItems(t) ==
    LET body == SubSeq(t, 2, Len(t) - 1)
        n == (Len(body) + 1) \div 4
    IN  [j \in 1..n |-> <<body[4 * j - 3], TokNum(body[4 * j - 1])>>]

\* json.load(f) on a text file: decode the bytes, then parse
json_load(t) ==
    IF \E i \in 1..Len(t) : t[i] \in NonText
    THEN [status |-> "Exception", data |-> << >>]         \* UnicodeDecodeError
    ELSE IF WellFormed(t)
    THEN [status |-> "ok", data |-> ParseItems(t)]
    ELSE [status |-> "JSONDecodeError", data |-> << >>]

\* gzip.open(path, 'rt') followed by json.load(f)
gzip_load(c) ==
    IF c = << >> THEN json_load(<< >>)
    ELSE IF c[1] # "GZH"
    THEN [status |-> "Exception", data |-> << >>]         \* BadGzipFile
    ELSE IF Len(c) = 1 \/ c[Len(c)] # "GZT"
    THEN [status |-> "Exception", data |-> << >>]         \* EOFError
    ELSE json_load(SubSeq(c, 2, Len(c) - 1))

----------------------------------------------------------------------------
(* The cache directory                                                     *)

Keys == {"k1"}
Exts == {"gz", "json"}

Paths == [key : Keys, ext : Exts, tmp : BOOLEAN]

NoFile == [exists |-> FALSE, content |-> << >>, mtime |-> 0]

\* _get_cache_path: the extension follows the compression setting
ExtOf(comp) == IF comp THEN "gz" ELSE "json"
CachePath(k, ext) == [key |-> k, ext |-> ext, tmp |-> FALSE]
\* a set that writes in place, at the canonical path
TempPathInPlace(k, ext) == [key |-> k, ext |-> ext, tmp |-> FALSE]
\* temp_path = f"{cache_path}.tmp"
TempPath(k, ext) == [key |-> k, ext |-> ext, tmp |-> TRUE]

ReadFile(p) == IF p.ext = "gz" THEN gzip_load(files[p].content)
               ELSE json_load(files[p].content)

FileAge(p) == now - files[p].mtime

\* a get that never expires an entry
FileExpiredNever(p) == FALSE
\* file_age > self.ttl
FileExpired(p) == FileAge(p) > ttl

NoOp == [op |-> "init", key |-> "k1", data |-> << >>, ok |-> FALSE,
         raised |-> FALSE, afterSet |-> FALSE, n |-> 0, seq |-> 0]

Event(op, k, data, ok, raised) ==
    [op |-> op, key |-> k, data |-> data, ok |-> ok, raised |-> raised,
     afterSet |-> FALSE, n |-> 0, seq |-> 0]

NoStored == [valid |-> FALSE, data |-> << >>, ext |-> "json"]

Idle == [pc |-> "idle", key |-> "k1", data |-> << >>, gz |-> FALSE,
         pos |-> 0, start |-> 0]

InitCache ==
    /\ files = [p \in Paths |-> NoFile]
    /\ now = 0
    /\ ttl \in 0..MaxTTL
    /\ compression \in BOOLEAN
    /\ w = Idle
    /\ lastOp = NoOp
    /\ stored = [k \in Keys |-> NoStored]
    /\ other = FALSE

----------------------------------------------------------------------------
(* The error taxonomy (src/src/exceptions.py) and ErrorContext             *)

\* the base class of each class
Parent(c) ==
    CASE c \in {"AuthenticationError", "NetworkError"} -> "APIError"
      [] c \in {"APIError", "TestError", "ValidationError", "ConfigurationError",
                "ResourceNotFoundError", "CacheError", "PluginError",
                "RetryableError"} -> "BPError"
      [] c \in {"ConnectionError", "Timeout", "HTTPError"} -> "RequestException"
      [] c = "RequestException" -> "OSError"
      [] OTHER -> "Exception"

RECURSIVE IsSubclass(_, _)
IsSubclass(c, d) ==
    IF c = d THEN TRUE
    ELSE IF c = "Exception" THEN FALSE
    ELSE IsSubclass(Parent(c), d)

\* the keyword arguments each constructor accepts (besides message)
CtorKwargs(c) ==
    CASE c = "BPError"   -> {"error_code", "retry_possible", "details"}
      [] c = "APIError"  -> {"status_code", "response", "endpoint",
                             "retry_possible", "error_code"}
      [] c = "TestError" -> {"test_id", "run_id", "error_code",
                             "retry_possible", "details"}
      [] c = "CacheError" -> {"operation", "test_id", "run_id"}
      [] OTHER -> {}

\* An exception: its class, whether it carries retry_possible and its value,
\* its status_code (0 is None), is_timeout, and retry_count / max_retries
\* (NoAttr where the class has no such attribute, NoneVal for None).
NoAttr == -2
NoneVal == -1

Exc(c, hasRp, rp, status, timeout, rc, mr) ==
    [cls |-> c, has_rp |-> hasRp, rp |-> rp, status |-> status,
     is_timeout |-> timeout, retry_count |-> rc, max_retries |-> mr]

Foreign(c) == Exc(c, FALSE, FALSE, 0, FALSE, NoAttr, NoAttr)

NoExc == Foreign("none")

\* BPError.__init__ and the subclasses that pass retry_possible through
NewBPError(c, rp) == Exc(c, TRUE, rp, 0, FALSE, NoAttr, NoAttr)

\* APIError(message, status_code, ..., retry_possible)
NewAPIError(status, rp) == Exc("APIError", TRUE, rp, status, FALSE, NoAttr, NoAttr)

\* AuthenticationError: always retry_possible=False
NewAuthenticationError(status) ==
    Exc("AuthenticationError", TRUE, FALSE, status, FALSE, NoAttr, NoAttr)

\* NetworkError: retry_possible = retry_count < (max_retries or 3)
NewNetworkError(timeout, rc, mr) ==
    Exc("NetworkError", TRUE,
        rc < (IF mr = NoneVal \/ mr = 0 THEN 3 ELSE mr),
        0, timeout, rc, mr)

\* RetryableError: retry_possible = max_retries is None or retry_count < max_retries
NewRetryableError(rc, mr) ==
    Exc("RetryableError", TRUE, mr = NoneVal \/ rc < mr, 0, FALSE, rc, mr)

\* ValidationError, ResourceNotFoundError, ConfigurationError, CacheError,
\* PluginError: always retry_possible=False
NewTerminalError(c) == NewBPError(c, FALSE)

\* api_error_handler(error): TRUE when it returns, FALSE when it raises
\* (500 <= None is a TypeError)
api_error_handler(e) ==
    IF IsSubclass(e.cls, "AuthenticationError") THEN TRUE
    ELSE IF IsSubclass(e.cls, "NetworkError") THEN TRUE
    ELSE IF e.status = 429 THEN TRUE
    ELSE IF e.status = 0 THEN FALSE
    ELSE TRUE

\* ErrorContext.__exit__(exc): whether the exception is suppressed, and the
\* exception that leaves the with block otherwise.
ErrorContextExit(e, error_type, recovery) ==
    IF /\ recovery
       /\ (IsSubclass(e.cls, "APIError") \/ IsSubclass(e.cls, "TestError"))
       /\ api_error_handler(e)
    THEN [suppressed |-> TRUE, exc |-> e]
    ELSE IF IsSubclass(e.cls, "BPError")
    THEN [suppressed |-> FALSE, exc |-> e]
    ELSE IF {"error_code", "details"} \subseteq CtorKwargs(error_type)
    THEN [suppressed |-> FALSE, exc |-> NewBPError(error_type, FALSE)]
    ELSE [suppressed |-> FALSE, exc |-> Foreign("TypeError")]

----------------------------------------------------------------------------
(* ResultCache.get                                                         *)

\* get examines the first path that exists, compressed first, and every
\* branch of the loop body returns
\* a get that looks at the store's own extension only
GetPathOwn(k) == CachePath(k, ExtOf(compression))
\* the first of <key>.json.gz, <key>.json that exists
GetPath(k) ==
    IF files[CachePath(k, "gz")].exists THEN CachePath(k, "gz")
    ELSE CachePath(k, "json")

\* a get that deletes the entry it finds expired
GetOutcomeEvict(k) ==
    LET p == GetPath(k) IN
    IF ~files[p].exists THEN [hit |-> FALSE, data |-> << >>, remove |-> FALSE]
    ELSE IF FileExpired(p) THEN [hit |-> FALSE, data |-> << >>, remove |-> TRUE]
    ELSE LET rd == ReadFile(p) IN
         IF rd.status = "ok" THEN [hit |-> TRUE, data |-> rd.data, remove |-> FALSE]
         ELSE IF rd.status = "JSONDecodeError"
         THEN [hit |-> FALSE, data |-> << >>, remove |-> TRUE]
         ELSE [hit |-> FALSE, data |-> << >>, remove |-> FALSE]
\* the outcome of get: expired or unreadable is a miss, and the file is
\* removed on json.JSONDecodeError only
GetOutcome(k) ==
    LET p == GetPath(k) IN
    IF ~files[p].exists THEN [hit |-> FALSE, data |-> << >>, remove |-> FALSE]
    ELSE IF FileExpired(p) THEN [hit |-> FALSE, data |-> << >>, remove |-> FALSE]
    ELSE LET rd == ReadFile(p) IN
         IF rd.status = "ok" THEN [hit |-> TRUE, data |-> rd.data, remove |-> FALSE]
         ELSE IF rd.status = "JSONDecodeError"
         THEN [hit |-> FALSE, data |-> << >>, remove |-> TRUE]
         ELSE [hit |-> FALSE, data |-> << >>, remove |-> FALSE]

Get(k) ==
    LET o == GetOutcome(k) IN
    /\ files' = IF o.remove THEN [files EXCEPT ![GetPath(k)] = NoFile] ELSE files
    /\ lastOp' = [Event("get", k, o.data, o.hit, FALSE) EXCEPT
                    !.afterSet = (lastOp.op = "set" /\ lastOp.ok /\ lastOp.key = k)]
    /\ UNCHANGED <<auxVars, r, api, now, ttl, compression, w, stored>>

----------------------------------------------------------------------------
(* ResultCache.set, one file operation per step                            *)

WTemp == TempPath(w.key, ExtOf(w.gz))
WFinal == CachePath(w.key, ExtOf(w.gz))
WToks == json_dump(w.data).toks

\* the module json has no attribute JSONEncodeError
JsonAttrs == {"JSONDecodeError", "JSONDecoder", "JSONEncoder", "dump", "dumps",
              "load", "loads"}

\* What set does with an exception raised in its try block: the except
\* clauses are matched in order, and naming a missing attribute raises
\* AttributeError, which leaves the try statement and reaches ErrorContext.
SetExcept(e) ==
    IF "JSONEncodeError" \notin JsonAttrs
    THEN LET x == ErrorContextExit(Foreign("AttributeError"), "CacheError", FALSE)
         IN  [raised |-> ~x.suppressed, cleanup |-> FALSE]
    ELSE IF e.cls = "JSONEncodeError"
    THEN [raised |-> FALSE, cleanup |-> FALSE]
    ELSE [raised |-> FALSE, cleanup |-> TRUE]

\* set leaves its try block with exception e
SetFails(e) ==
    LET h == SetExcept(e) IN
    /\ lastOp' = Event("set", w.key, << >>, FALSE, h.raised)
    /\ w' = Idle
    /\ UNCHANGED <<auxVars, r, api, now, ttl, compression, stored>>

SetCall(k, data) ==
    /\ w.pc = "idle"
    /\ IF data = EmptyPayload
       THEN /\ lastOp' = Event("set", k, << >>, FALSE, FALSE)
            /\ UNCHANGED w
       ELSE /\ w' = [pc |-> "open", key |-> k, data |-> data,
                     gz |-> compression, pos |-> 1, start |-> now]
            /\ UNCHANGED lastOp
    /\ UNCHANGED <<auxVars, r, api, files, now, ttl, compression, stored>>

\* open(temp_path, 'w') / gzip.open(temp_path, 'wt'): create or truncate
SetOpenTemp ==
    /\ w.pc = "open"
    /\ files' = [files EXCEPT ![WTemp] =
                    [exists |-> TRUE,
                     content |-> IF w.gz THEN <<"GZH">> ELSE << >>,
                     mtime |-> now]]
    /\ w' = [w EXCEPT !.pc = "write"]
    /\ UNCHANGED <<auxVars, r, api, now, ttl, compression, lastOp, stored>>

\* json.dump writes the next chunk
SetWrite ==
    /\ w.pc = "write"
    /\ w.pos <= Len(WToks)
    /\ files' = [files EXCEPT ![WTemp] =
                    [exists |-> TRUE,
                     content |-> files[WTemp].content \o <<WToks[w.pos]>>,
                     mtime |-> now]]
    /\ w' = [w EXCEPT !.pos = w.pos + 1]
    /\ UNCHANGED <<auxVars, r, api, now, ttl, compression, lastOp, stored>>

\* the with block closes the file (gzip writes its trailer); if json.dump
\* raised TypeError, the exception leaves the try block now
SetClose ==
    /\ w.pc = "write"
    /\ w.pos > Len(WToks)
    /\ files' = [files EXCEPT ![WTemp] =
                    [exists |-> TRUE,
                     content |-> IF w.gz THEN files[WTemp].content \o <<"GZT">>
                                 ELSE files[WTemp].content,
                     mtime |-> now]]
    /\ IF json_dump(w.data).ok
       THEN /\ w' = [w EXCEPT !.pc = "replace"]
            /\ UNCHANGED <<auxVars, r, api, now, ttl, compression, lastOp, stored>>
       ELSE SetFails(Foreign("TypeError"))

\* os.replace(temp_path, cache_path), then return True
SetReplace ==
    /\ w.pc = "replace"
    /\ files' = [files EXCEPT ![WFinal] = files[WTemp], ![WTemp] = NoFile]
    /\ lastOp' = Event("set", w.key, << >>, TRUE, FALSE)
    /\ stored' = [stored EXCEPT ![w.key] =
                    [valid |-> TRUE, data |-> w.data, ext |-> ExtOf(w.gz)]]
    /\ w' = Idle
    /\ UNCHANGED <<auxVars, r, api, now, ttl, compression>>

\* an I/O step of set fails with OSError (open, write, close or replace)
SetIOError ==
    /\ w.pc \in {"open", "write", "replace"}
    /\ LET h == SetExcept(Foreign("OSError")) IN
       files' = IF h.cleanup /\ files[WTemp].exists
                THEN [files EXCEPT ![WTemp] = NoFile] ELSE files
    /\ SetFails(Foreign("OSError"))

\* the process running set is killed
Crash ==
    /\ w.pc # "idle"
    /\ w' = Idle
    /\ lastOp' = Event("crash", w.key, << >>, FALSE, FALSE)
    /\ UNCHANGED <<auxVars, r, api, files, now, ttl, compression, stored>>

----------------------------------------------------------------------------
(* The environment of the cache                                            *)

Tick ==
    /\ now < MaxTime
    /\ now' = now + 1
    /\ lastOp' = Event("tick", "k1", << >>, FALSE, FALSE)
    /\ UNCHANGED <<auxVars, r, api, files, ttl, compression, w, stored>>

\* contents that cannot be read back as a payload
Garbage(ext) ==
    IF ext = "json"
    THEN { <<"x">>, <<"BIN">> }
    ELSE { <<"x">>, <<"GZH", "x", "GZT">>, <<"GZH", "BIN", "GZT">> }

\* an existing cache file is overwritten with garbage from outside
Corrupt(k, ext, g) ==
    /\ files[CachePath(k, ext)].exists
    /\ files' = [files EXCEPT ![CachePath(k, ext)] =
                    [exists |-> TRUE, content |-> g, mtime |-> now]]
    /\ lastOp' = Event("corrupt", k, << >>, FALSE, FALSE)
    /\ stored' = [stored EXCEPT ![k] = NoStored]
    /\ UNCHANGED <<auxVars, r, api, now, ttl, compression, w>>

\* a store with the other compression setting is used on the same directory
SwitchCompression ==
    /\ compression' = ~compression
    /\ lastOp' = Event("switch", "k1", << >>, FALSE, FALSE)
    /\ UNCHANGED <<auxVars, r, api, files, now, ttl, w, stored>>

----------------------------------------------------------------------------
(* ResultCache.get, one file operation per step, by concurrent readers     *)

Readers == {"r1", "r2"}

GIdle == [pc |-> "idle", key |-> "k1", ext |-> "gz", snap |-> << >>,
          prev |-> NoStored, cur |-> NoStored,
          hit |-> FALSE, data |-> << >>, raised |-> FALSE]

InitReaders == gets = [i \in Readers |-> GIdle]

Reading(i) == gets[i].pc \notin {"idle", "done"}

\* return from get: a payload, or None
GReturn(i, hit, data) ==
    [gets EXCEPT ![i] = [@ EXCEPT !.pc = "done", !.hit = hit, !.data = data,
                               !.snap = << >>, !.cur = stored[gets[i].key]]]

\* get(test_id, run_id) is called: the first candidate is <key>.json.gz
GetCall(i, k) ==
    /\ gets[i].pc \in {"idle", "done"}
    /\ gets' = [gets EXCEPT ![i] = [GIdle EXCEPT !.pc = "exists", !.key = k,
                                           !.prev = stored[k]]]
    /\ UNCHANGED <<moreVars, cacheVars, retryVars, ctx, other, cl>>

\* os.path.exists(cache_path); after the last candidate: cache miss
GetExists(i) ==
    /\ gets[i].pc = "exists"
    /\ gets' = IF files[CachePath(gets[i].key, gets[i].ext)].exists
            THEN [gets EXCEPT ![i].pc = "mtime"]
            ELSE IF gets[i].ext = "gz"
            THEN [gets EXCEPT ![i].ext = "json"]
            ELSE GReturn(i, FALSE, << >>)
    /\ UNCHANGED <<moreVars, cacheVars, retryVars, ctx, other, cl>>

\* file_age = time.time() - os.path.getmtime(cache_path); an OSError is
\* caught by except Exception
GetMtime(i) ==
    /\ gets[i].pc = "mtime"
    /\ LET p == CachePath(gets[i].key, gets[i].ext) IN
       gets' = IF ~files[p].exists THEN GReturn(i, FALSE, << >>)
            ELSE IF FileExpired(p) THEN GReturn(i, FALSE, << >>)
            ELSE [gets EXCEPT ![i].pc = "open"]
    /\ UNCHANGED <<moreVars, cacheVars, retryVars, ctx, other, cl>>

\* open(cache_path) / gzip.open(cache_path): the handle keeps the file it
\* opened, whatever is renamed onto its name afterwards
GetOpen(i) ==
    /\ gets[i].pc = "open"
    /\ LET p == CachePath(gets[i].key, gets[i].ext) IN
       gets' = IF ~files[p].exists THEN GReturn(i, FALSE, << >>)
            ELSE [gets EXCEPT ![i].pc = "read", ![i].snap = files[p].content]
    /\ UNCHANGED <<moreVars, cacheVars, retryVars, ctx, other, cl>>

\* json.load(f); a file that does not parse is removed (os.remove) before
\* get returns None
GetRead(i) ==
    /\ gets[i].pc = "read"
    /\ LET rd == IF gets[i].ext = "gz" THEN gzip_load(gets[i].snap)
                 ELSE json_load(gets[i].snap)
           p == CachePath(gets[i].key, gets[i].ext)
       IN
       IF rd.status = "JSONDecodeError"
       THEN /\ files' = [files EXCEPT ![p] = NoFile]
            /\ stored' = IF stored[gets[i].key].ext = gets[i].ext
                         THEN [stored EXCEPT ![gets[i].key] = NoStored]
                         ELSE stored
            /\ gets' = [gets EXCEPT ![i] = [@ EXCEPT !.pc = "done", !.hit = FALSE,
                                                 !.data = << >>, !.snap = << >>,
                                                 !.cur = NoStored]]
       ELSE /\ gets' = GReturn(i, rd.status = "ok", rd.data)
            /\ UNCHANGED <<files, stored>>
    /\ UNCHANGED <<moreVars, retryVars, ctx, other, cl, now, ttl, compression, w, lastOp>>

\* json.load(f) and os.remove(cache_path) as the two steps they are: between
\* them a writer may rename a new file onto the name. (GetRead above takes
\* them as one step, for directories in which every file parses.)
GetParse(i) ==
    /\ gets[i].pc = "read"
    /\ LET rd == IF gets[i].ext = "gz" THEN gzip_load(gets[i].snap)
                 ELSE json_load(gets[i].snap)
       IN  gets' = IF rd.status = "JSONDecodeError"
                   THEN [gets EXCEPT ![i].pc = "remove", ![i].snap = << >>]
                   ELSE GReturn(i, rd.status = "ok", rd.data)
    /\ UNCHANGED <<moreVars, cacheVars, retryVars, ctx, other, cl>>

\* os.remove(cache_path) removes the file that has the name now (if none
\* has, the error is caught), then get returns None
GetRemove(i) ==
    /\ gets[i].pc = "remove"
    /\ files' = [files EXCEPT ![CachePath(gets[i].key, gets[i].ext)] = NoFile]
    /\ gets' = GReturn(i, FALSE, << >>)
    /\ UNCHANGED <<moreVars, retryVars, ctx, other, cl, now, ttl, compression, w,
                   lastOp, stored>>

\* set is called while no get is in progress: a get overlaps one set
SetCallAlone(k, d) ==
    /\ \A i \in Readers : ~Reading(i)
    /\ SetCall(k, d)

----------------------------------------------------------------------------
(* ResultCache.invalidate, clear and cleanup                               *)

\* a clear that knows one extension only
RecognizedJsonOnly(p) == ~p.tmp /\ p.ext = "json"
\* filename.endswith(".json") or filename.endswith(".json.gz"); the name of
\* a temporary file ends in .tmp
Recognized(p) == ~p.tmp

\* os.listdir(self.cache_dir), the cache's own names
Listed == {p \in Paths : files[p].exists}

\* os.remove of each path of S
Remove(S) == [p \in Paths |-> IF p \in S THEN NoFile ELSE files[p]]

\* the entries whose file is among S are gone
Forget(S) ==
    [k \in Keys |-> IF stored[k].valid /\ CachePath(k, stored[k].ext) \in S
                    THEN NoStored ELSE stored[k]]

\* an invalidate that looks at the store's own extension only
InvalidatePathsOwn(k) == {CachePath(k, ExtOf(compression))}
\* cache_paths = [<key>.json.gz, <key>.json]
InvalidatePaths(k) == {CachePath(k, e) : e \in Exts}

\* invalidate(test_id, run_id): success is whether a file was removed
Invalidate(k) ==
    LET S == {p \in InvalidatePaths(k) : files[p].exists} IN
    /\ files' = Remove(S)
    /\ stored' = Forget(S)
    /\ lastOp' = [Event("invalidate", k, << >>, S # {}, FALSE) EXCEPT
                    !.seq = IF lastOp.op = "set" /\ lastOp.ok /\ lastOp.key = k
                            THEN 1
                            ELSE IF /\ lastOp.op = "invalidate"
                                    /\ lastOp.key = k
                                    /\ lastOp.seq = 1
                            THEN 2 ELSE 0]
    /\ UNCHANGED <<auxVars, r, api, now, ttl, compression, w>>

\* clear(): the count of the files removed
Clear ==
    LET S == {p \in Listed : Recognized(p)} IN
    /\ files' = Remove(S)
    /\ stored' = Forget(S)
    /\ lastOp' = [Event("clear", "k1", << >>, TRUE, FALSE) EXCEPT
                    !.n = Cardinality(S)]
    /\ UNCHANGED <<auxVars, r, api, now, ttl, compression, w>>

\* the max_age argument of cleanup: None, or a number of seconds
MaxAges == {NoneVal} \cup (0..MaxTime)

\* max_age = max_age or self.ttl
EffectiveMaxAge(a) == IF a = NoneVal \/ a = 0 THEN ttl ELSE a

\* cleanup(max_age): file_age > max_age
Cleanup(a) ==
    LET S == {p \in Listed : Recognized(p) /\ FileAge(p) > EffectiveMaxAge(a)} IN
    /\ files' = Remove(S)
    /\ stored' = Forget(S)
    /\ lastOp' = [Event("cleanup", "k1", << >>, TRUE, FALSE) EXCEPT
                    !.n = Cardinality(S)]
    /\ UNCHANGED <<auxVars, r, api, now, ttl, compression, w>>

\* somebody puts a file of another name into the cache directory
PutOther ==
    /\ ~other
    /\ other' = TRUE
    /\ UNCHANGED <<moreVars, cacheVars, retryVars, ctx, gets, cl>>

----------------------------------------------------------------------------
(* retry_with_backoff (src/src/error_handler.py)                           *)

MaxRetries == 2

\* RetryConfig defaults
DefaultMaxRetries == 3
DefaultRetryExceptions == {"NetworkError", "RetryableError"}

\* the retry_exceptions argument: None, or a list of classes
RetryConfigs ==
    { [given |-> FALSE, set |-> {}] } \cup
    { [given |-> TRUE, set |-> S] :
        S \in { {}, {"NetworkError"}, {"APIError"}, {"BPError"}, {"ValueError"} } }

\* a configuration that takes the list as given
RetryExceptionsAsGiven(c) ==
    IF c.given THEN c.set ELSE DefaultRetryExceptions
\* self.retry_exceptions = retry_exceptions or [NetworkError, RetryableError]
RetryExceptions(c) ==
    IF c.given /\ c.set # {} THEN c.set ELSE DefaultRetryExceptions

\* a wrapper whose except clause catches nothing
CaughtNever(e, c) == FALSE
\* except tuple(config.retry_exceptions) as e
Caught(e, c) == \E d \in RetryExceptions(c) : IsSubclass(e.cls, d)

\* a wrapper that ignores the flag
NotRetryableNever(e) == FALSE
\* hasattr(e, 'retry_possible') and not e.retry_possible
NotRetryable(e) == e.has_rp /\ ~e.rp

\* a wrapper that sleeps once more before giving up
LastRetryLate(retry, maxr) == retry > maxr
\* retry >= config.max_retries
LastRetry(retry, maxr) == retry >= maxr

\* the errors the wrapped operation raises
OpErrors ==
    { NewNetworkError(FALSE, 0, NoneVal), NewNetworkError(TRUE, 3, NoneVal),
      NewRetryableError(0, NoneVal), NewRetryableError(1, 1),
      NewAPIError(500, TRUE), NewAPIError(400, FALSE),
      NewAuthenticationError(401),
      NewTerminalError("ValidationError"),
      NewTerminalError("ResourceNotFoundError"),
      NewTerminalError("ConfigurationError"),
      Foreign("ValueError") }

RIdle == [pc |-> "idle", fn |-> "op", max_retries |-> 0,
          cfg |-> [given |-> FALSE, set |-> {}],
          retry |-> 0, attempts |-> 0, sleeps |-> 0,
          last |-> NoExc, result |-> "none", exc |-> NoExc, value |-> "none",
          allRetryable |-> TRUE, firstFlagFalse |-> FALSE]

InitRetry ==
    /\ r = RIdle
    /\ api = [auth_token |-> FALSE, req |-> "none", kind |-> "none", exc |-> NoExc]

\* the wrapper is called: for retry in range(max_retries + 1)
RetryCall(m, c) ==
    /\ r.pc \in {"idle", "done"}
    /\ r' = [RIdle EXCEPT !.pc = "call", !.max_retries = m, !.cfg = c]
    /\ UNCHANGED api
    /\ UNCHANGED <<cacheVars, auxVars>>

\* the wrapper's handling of an exception e raised by attempt r.retry
Handle(e) ==
    LET seen == [r EXCEPT
                    !.attempts = r.attempts + 1,
                    !.last = e,
                    !.allRetryable =
                        /\ r.allRetryable
                        /\ \E d \in RetryExceptionsAsGiven(r.cfg) : IsSubclass(e.cls, d)
                        /\ ~(e.has_rp /\ ~e.rp),
                    !.firstFlagFalse =
                        IF r.attempts = 0 THEN e.has_rp /\ ~e.rp
                        ELSE r.firstFlagFalse]
        raise(x) == [seen EXCEPT !.pc = "done", !.result = "raise", !.exc = x]
    IN
    IF Caught(e, r.cfg)
    THEN IF NotRetryable(e) THEN raise(e)
         ELSE IF LastRetry(r.retry, r.max_retries)
         THEN raise(IF e.retry_count # NoAttr
                    THEN [e EXCEPT !.retry_count = r.retry] ELSE e)
         ELSE [seen EXCEPT !.pc = "sleep"]
    ELSE raise(e)

\* the wrapped function returned
Returned(v) ==
    [r EXCEPT !.attempts = r.attempts + 1, !.pc = "done", !.result = "return",
              !.value = v, !.allRetryable = FALSE]

OpRaises(e) ==
    /\ r.pc = "call"
    /\ r.fn = "op"
    /\ r' = Handle(e)
    /\ UNCHANGED api
    /\ UNCHANGED <<cacheVars, auxVars>>

OpReturns ==
    /\ r.pc = "call"
    /\ r.fn = "op"
    /\ r' = Returned("value")
    /\ UNCHANGED api
    /\ UNCHANGED <<cacheVars, auxVars>>

\* time.sleep(delay), then the next iteration of the loop; after the last
\* iteration the wrapper raises last_exception
Sleep ==
    /\ r.pc = "sleep"
    /\ r' = IF r.retry + 1 <= r.max_retries
            THEN [r EXCEPT !.pc = "call", !.retry = r.retry + 1,
                           !.sleeps = r.sleeps + 1]
            ELSE [r EXCEPT !.pc = "done", !.retry = r.retry + 1,
                           !.sleeps = r.sleeps + 1,
                           !.result = "raise", !.exc = r.last]
    /\ UNCHANGED api
    /\ UNCHANGED <<cacheVars, auxVars>>

----------------------------------------------------------------------------
(* BreakingPointAPI.login, logout and _api_call (src/src/api.py)           *)

\* what the HTTP request of an attempt does
Requests == {"ok", "ok_no_token", "ConnectionError", "Timeout", "http401",
             "http404", "http400", "http429", "http500", "RequestException"}

FailedRequests == {"ConnectionError", "Timeout", "http401", "http404",
                   "http400", "http429", "http500"}

StatusOf(q) ==
    CASE q = "http401" -> 401 [] q = "http404" -> 404 [] q = "http400" -> 400
      [] q = "http429" -> 429 [] q = "http500" -> 500 [] OTHER -> 200

Return(v) == [kind |-> "return", value |-> v, exc |-> NoExc]
Raise(e) == [kind |-> "raise", value |-> "none", exc |-> e]

\* leaving a with ErrorContext(...) block with exception e: a suppressed
\* exception lets the function run off its end and return None
LeaveContext(e, error_type, recovery) ==
    LET x == ErrorContextExit(e, error_type, recovery) IN
    IF x.suppressed THEN Return("None") ELSE Raise(x.exc)

\* the body of _api_call for one attempt
ApiCallBody(token, q) ==
    IF ~token THEN Raise(NewAuthenticationError(0))
    ELSE CASE q \in {"ok", "ok_no_token"} -> Return("value")
           [] q = "http404" ->
                LeaveContext(NewTerminalError("ResourceNotFoundError"), "APIError", TRUE)
           [] q = "ConnectionError" ->
                LeaveContext(NewNetworkError(FALSE, 0, NoneVal), "APIError", TRUE)
           [] q = "Timeout" ->
                LeaveContext(NewNetworkError(TRUE, 0, NoneVal), "APIError", TRUE)
           [] q \in {"http401", "http400", "http429", "http500"} ->
                LeaveContext(NewAPIError(StatusOf(q),
                                         StatusOf(q) >= 500 \/ StatusOf(q) = 429),
                             "APIError", TRUE)
           [] OTHER ->
                LeaveContext(NewAPIError(0, FALSE), "APIError", TRUE)

\* the body of login for one attempt
LoginBody(q) ==
    CASE q = "ok" -> Return("True")
      [] q = "ok_no_token" ->
            LeaveContext(NewAuthenticationError(0), "APIError", FALSE)
      [] q = "http401" ->
            LeaveContext(NewAuthenticationError(401), "APIError", FALSE)
      [] q = "ConnectionError" ->
            LeaveContext(NewNetworkError(FALSE, 0, NoneVal), "APIError", FALSE)
      [] q = "Timeout" ->
            LeaveContext(NewNetworkError(TRUE, 0, NoneVal), "APIError", FALSE)
      [] q \in {"http404", "http400", "http429", "http500"} ->
            LeaveContext(NewAPIError(StatusOf(q), StatusOf(q) >= 500),
                         "APIError", FALSE)
      [] OTHER ->
            LeaveContext(NewAPIError(0, FALSE), "APIError", FALSE)

\* @retry_with_backoff(): the default RetryConfig
ApiCall(f) ==
    /\ r.pc \in {"idle", "done"}
    /\ r' = [RIdle EXCEPT !.pc = "call", !.fn = f,
                          !.max_retries = DefaultMaxRetries]
    /\ UNCHANGED api
    /\ UNCHANGED <<cacheVars, auxVars>>

Attempted(b) == IF b.kind = "return" THEN Returned(b.value) ELSE Handle(b.exc)

LoginAttempt(q) ==
    /\ r.pc = "call"
    /\ r.fn = "login"
    /\ LET b == LoginBody(q) IN
       /\ r' = Attempted(b)
       /\ api' = [auth_token |-> IF q = "ok" THEN TRUE ELSE api.auth_token,
                  req |-> q, kind |-> b.kind, exc |-> b.exc]
    /\ UNCHANGED <<cacheVars, auxVars>>

ApiAttempt(q) ==
    /\ r.pc = "call"
    /\ r.fn = "_api_call"
    /\ LET b == ApiCallBody(api.auth_token, q) IN
       /\ r' = Attempted(b)
       /\ api' = [api EXCEPT !.req = IF api.auth_token THEN q ELSE "none",
                             !.kind = b.kind, !.exc = b.exc]
    /\ UNCHANGED <<cacheVars, auxVars>>

\* logout never raises; the token is dropped when the request succeeds
Logout(q) ==
    /\ r.pc \in {"idle", "done"}
    /\ api.auth_token
    /\ api' = [auth_token |-> (q # "ok"), req |-> "none", kind |-> "none",
               exc |-> NoExc]
    /\ UNCHANGED r
    /\ UNCHANGED <<cacheVars, auxVars>>

----------------------------------------------------------------------------
(* Nested with ErrorContext(...) blocks (src/src/error_handler.py)         *)

\* the deepest nesting of with blocks
MaxDepth == 2

\* keys of context_info and of an error's details
InfoKeys == {"endpoint", "host"}

\* a key's value says who wrote it: the error's constructor, or the context
\* entered at a nesting level
Absent == "absent"
Own == "own"
LevelTag(i) == "ctx" \o ToString(i)

NoDetails == [k \in InfoKeys |-> Absent]

\* the context_info maps of a context entered at level i
InfoMaps(i) == [InfoKeys -> {Absent, LevelTag(i)}]

\* the details an error has when raised: APIError.__init__ always puts the
\* keys status_code and endpoint
OwnDetails(c) ==
    IF c = "none" \/ ~IsSubclass(c, "BPError") THEN {NoDetails}
    ELSE IF IsSubclass(c, "APIError")
    THEN {d \in [InfoKeys -> {Absent, Own}] : d["endpoint"] = Own}
    ELSE [InfoKeys -> {Absent, Own}]

\* the error_type and recovery_func arguments of ErrorContext
ContextKinds ==
    { [error_type |-> t, recovery |-> FALSE] : t \in {"BPError", "APIError", "CacheError"} }
    \cup { [error_type |-> "APIError", recovery |-> TRUE],
           [error_type |-> "BPError", recovery |-> TRUE] }

NewContext(info, kind) ==
    [info |-> info, error_type |-> kind.error_type, recovery |-> kind.recovery]

\* the exceptions a with block's body raises
BodyErrors ==
    { Foreign("ValueError"), NewBPError("BPError", FALSE),
      NewAPIError(500, TRUE), NewNetworkError(FALSE, 0, NoneVal),
      NewBPError("TestError", FALSE), NewTerminalError("CacheError") }

\* a merge that lets the context overwrite
MergeOverwrite(d, info) ==
    [k \in InfoKeys |-> IF info[k] # Absent THEN info[k] ELSE d[k]]
\* for key, value in context_info.items(): if key not in details: details[key] = value
Merge(d, info) ==
    [k \in InfoKeys |-> IF d[k] # Absent THEN d[k] ELSE info[k]]

\* a context that offers every exception to the callback
EligibleAlways(c, e) == c.recovery
\* recovery_func is not None and issubclass(exc_type, (APIError, TestError))
Eligible(c, e) ==
    /\ c.recovery
    /\ (IsSubclass(e.cls, "APIError") \/ IsSubclass(e.cls, "TestError"))

\* self.error_type(error_message, error_code=..., details=...) is a TypeError
\* unless the constructor takes both keywords
Convertible(t) == {"error_code", "details"} \subseteq CtorKwargs(t)

\* ErrorContext.__exit__ of context c with exception e (details d, cause cz)
\* in flight, cb being what the recovery callback does when called
Exit(c, e, d, cz, cb) ==
    IF Eligible(c, e) /\ cb = "returns"
    THEN [suppressed |-> TRUE, exc |-> e, details |-> d, cause |-> cz, invoked |-> 1]
    ELSE IF IsSubclass(e.cls, "BPError")
    THEN [suppressed |-> FALSE, exc |-> e, details |-> Merge(d, c.info),
          cause |-> cz, invoked |-> IF Eligible(c, e) THEN 1 ELSE 0]
    ELSE IF Convertible(c.error_type)
    THEN [suppressed |-> FALSE, exc |-> NewBPError(c.error_type, FALSE),
          details |-> c.info, cause |-> e.cls, invoked |-> 0]
    ELSE [suppressed |-> FALSE, exc |-> Foreign("TypeError"),
          details |-> NoDetails, cause |-> "none", invoked |-> 0]

NoExit == [done |-> FALSE, context |-> NewContext(NoDetails, [error_type |-> "BPError", recovery |-> FALSE]),
           level |-> 0, cb |-> "returns",
           exc |-> NoExc, details |-> NoDetails,
           out |-> [suppressed |-> FALSE, exc |-> NoExc, details |-> NoDetails,
                    cause |-> "none", invoked |-> 0]]

CtxIdle == [pc |-> "idle", stack |-> << >>, exc |-> NoExc, details |-> NoDetails,
            cause |-> "none", raised |-> NoExc, own |-> NoDetails,
            at |-> << >>, crossed |-> 0, recovering |-> FALSE, last |-> NoExit]

InitCtx == ctx = CtxIdle

\* __enter__: one more with block is open
Enter(info, kind) ==
    /\ ctx.pc \in {"idle", "body"}
    /\ Len(ctx.stack) < MaxDepth
    /\ info \in InfoMaps(Len(ctx.stack) + 1)
    /\ ctx' = [CtxIdle EXCEPT !.pc = "body",
                              !.stack = Append(ctx.stack, NewContext(info, kind))]
    /\ UNCHANGED <<moreVars, cacheVars, retryVars, other, gets, cl>>

\* the body of the innermost block raises e, whose details are d
BodyRaises(e, d) ==
    /\ ctx.pc = "body"
    /\ d \in OwnDetails(e.cls)
    /\ ctx' = [ctx EXCEPT !.pc = "exit", !.exc = e, !.details = d,
                          !.cause = "none", !.raised = e, !.own = d,
                          !.at = ctx.stack, !.crossed = 0, !.recovering = FALSE,
                          !.last = NoExit]
    /\ UNCHANGED <<moreVars, cacheVars, retryVars, other, gets, cl>>

\* the body of the innermost block ends: __exit__(None, None, None)
BodyReturns ==
    /\ ctx.pc = "body"
    /\ LET rest == SubSeq(ctx.stack, 1, Len(ctx.stack) - 1) IN
       ctx' = [CtxIdle EXCEPT !.stack = rest,
                              !.pc = IF rest = << >> THEN "done" ELSE "body"]
    /\ UNCHANGED <<moreVars, cacheVars, retryVars, other, gets, cl>>

\* the exception in flight crosses the boundary of the innermost open block
ExitStep(cb) ==
    /\ ctx.pc = "exit"
    /\ LET c == ctx.stack[Len(ctx.stack)]
           rest == SubSeq(ctx.stack, 1, Len(ctx.stack) - 1)
           x == Exit(c, ctx.exc, ctx.details, ctx.cause, cb)
       IN
       ctx' = [ctx EXCEPT
                 !.stack = rest,
                 !.pc = IF x.suppressed
                        THEN (IF rest = << >> THEN "done" ELSE "body")
                        ELSE (IF rest = << >> THEN "done" ELSE "exit"),
                 !.exc = IF x.suppressed THEN NoExc ELSE x.exc,
                 !.details = IF x.suppressed THEN NoDetails ELSE x.details,
                 !.cause = IF x.suppressed THEN "none" ELSE x.cause,
                 !.crossed = ctx.crossed + 1,
                 !.recovering = ctx.recovering \/ c.recovery,
                 !.last = [done |-> TRUE, context |-> c, level |-> Len(ctx.stack),
                           cb |-> cb, exc |-> ctx.exc, details |-> ctx.details,
                           out |-> x]]
    /\ UNCHANGED <<moreVars, cacheVars, retryVars, other, gets, cl>>

----------------------------------------------------------------------------
(* BreakingPointAPI.get_test_results (src/src/api.py), the same in         *)
(* AsyncBreakingPointAPI (src/src/api_async.py)                            *)

\* what a request that succeeds makes _api_call return: the parsed body, or
\* {} for a response without content
FetchPayloads == GoodPayloads \cup {EmptyPayload}

NoPrev == [valid |-> FALSE, data |-> << >>, at |-> 0]

ClIdle == [pc |-> "idle", key |-> "k1", got |-> FALSE, fetched |-> FALSE,
           fetchOk |-> FALSE, kind |-> "none", isNone |-> FALSE,
           res |-> << >>, at |-> 0, prev |-> NoPrev, within |-> FALSE]

InitClient == cl = ClIdle

\* a client that ignores the cache
UseCachedNever(o) == FALSE
\* if cached_result:
UseCached(o) == o.hit /\ o.data # EmptyPayload

\* the file a set of data that runs to its end leaves under the final name
SetWhole(k, data) ==
    [files EXCEPT ![CachePath(k, ExtOf(compression))] =
        [exists |-> TRUE,
         content |-> IF compression
                     THEN <<"GZH">> \o json_dump(data).toks \o <<"GZT">>
                     ELSE json_dump(data).toks,
         mtime |-> now]]

\* get_test_results(test_id, run_id) is called, caching enabled
GtrCall(k) ==
    /\ cl.pc \in {"idle", "done"}
    /\ cl' = [ClIdle EXCEPT
                !.pc = "lookup",
                !.key = k,
                !.prev = IF /\ cl.pc = "done"
                            /\ cl.key = k
                            /\ cl.kind = "return"
                            /\ cl.fetchOk
                         THEN [valid |-> TRUE, data |-> cl.res, at |-> cl.at]
                         ELSE NoPrev]
    /\ UNCHANGED <<moreVars, cacheVars, retryVars, ctx, other, gets>>

\* cached_result = cache.get(test_id, run_id); if cached_result: return it
GtrLookup ==
    /\ cl.pc = "lookup"
    /\ LET o == GetOutcome(cl.key)
           seen == [cl EXCEPT !.got = o.hit,
                              !.within = cl.prev.valid /\ now - cl.prev.at <= ttl]
       IN
       /\ files' = IF o.remove THEN [files EXCEPT ![GetPath(cl.key)] = NoFile]
                   ELSE files
       /\ lastOp' = Event("get", cl.key, o.data, o.hit, FALSE)
       /\ cl' = IF UseCached(o)
                THEN [seen EXCEPT !.pc = "done", !.kind = "return", !.res = o.data]
                ELSE [seen EXCEPT !.pc = "fetch"]
    /\ UNCHANGED <<moreVars, retryVars, ctx, other, gets, now, ttl, compression, w, stored>>

\* results = self._api_call("GET", ...): the request does q and, when it
\* succeeds, the response holds d
GtrFetch(q, d) ==
    /\ cl.pc = "fetch"
    /\ LET b == ApiCallBody(TRUE, q) IN
       cl' = IF b.kind = "raise"
             THEN [cl EXCEPT !.pc = "done", !.kind = "raise", !.fetched = TRUE]
             ELSE [cl EXCEPT !.pc = "store", !.fetched = TRUE,
                             !.fetchOk = (b.value # "None"),
                             !.isNone = (b.value = "None"),
                             !.res = IF b.value = "None" THEN << >> ELSE d]
    /\ UNCHANGED <<moreVars, cacheVars, retryVars, ctx, other, gets>>

\* cache.set(test_id, run_id, results), whose result is ignored; return results
GtrStore ==
    /\ cl.pc = "store"
    /\ LET accepted == ~cl.isNone /\ cl.res # EmptyPayload IN
       /\ files' = IF accepted THEN SetWhole(cl.key, cl.res) ELSE files
       /\ stored' = IF accepted
                    THEN [stored EXCEPT ![cl.key] =
                            [valid |-> TRUE, data |-> cl.res,
                             ext |-> ExtOf(compression)]]
                    ELSE stored
       /\ lastOp' = Event("set", cl.key, << >>, accepted, FALSE)
    /\ cl' = [cl EXCEPT !.pc = "done", !.kind = "return", !.at = now]
    /\ UNCHANGED <<moreVars, retryVars, ctx, other, gets, now, ttl, compression, w>>

----------------------------------------------------------------------------
(* Batch operations: N concurrent calls joined by asyncio.gather           *)

\* the longest request list of a batch operation
MaxReqs == 2

TestIds == {"t1", "t2"}

RunIds == {"r1", "r2"}

\* a run_id of None: the test did not start
NoRun == "None"

\* what a call returns (a run id, a status, a result, a summary), and str(e)
\* of the exception it raises
Values == {"v1", "v2"}

ErrorTexts == {"e1"}

FanFns == {"run_multiple_tests", "get_multiple_test_results",
           "get_multiple_test_statuses", "batch_process_tests"}

\* a call that has not finished, a call that was never made, and the outcomes
\* of a finished call
Pending == [ok |-> FALSE, val |-> "pending"]

NotCalled == [ok |-> FALSE, val |-> "not called"]

Outcomes == [ok : {TRUE}, val : Values] \cup [ok : {FALSE}, val : ErrorTexts]

\* one request: <<test_id, run_id>>
RequestsOf(fn) ==
    CASE fn = "run_multiple_tests" -> TestIds \X {NoRun}
      [] fn = "get_multiple_test_results" -> TestIds \X (RunIds \cup {NoRun})
      [] OTHER -> TestIds \X RunIds

\* the request lists of at most MaxReqs requests; the argument of
\* get_multiple_test_results is a dict, whose keys are distinct
RequestLists(fn) ==
    LET all == UNION {[1..n -> RequestsOf(fn)] : n \in 1..MaxReqs}
    IN  IF fn = "get_multiple_test_results"
        THEN {q \in all : \A i, j \in 1..Len(q) : q[i][1] = q[j][1] => i = j}
        ELSE all

\* d[k] = v on a dict, kept as the sequence of its items in insertion order
DictSet(d, k, v) ==
    IF \E j \in 1..Len(d) : d[j][1] = k
    THEN [j \in 1..Len(d) |-> IF d[j][1] = k THEN <<k, v>> ELSE d[j]]
    ELSE Append(d, <<k, v>>)

\* the loop of run_multiple_tests over the gathered results, from position p
RECURSIVE RunMultipleTests(_, _, _, _)
RunMultipleTests(test_ids, results, p, run_ids) ==
    IF p > Len(test_ids) THEN run_ids
    ELSE RunMultipleTests(test_ids, results, p + 1,
            DictSet(run_ids, test_ids[p][1],
                    IF results[p].ok THEN results[p].val ELSE NoRun))

\* the tasks of get_multiple_test_results: one per entry that has a run id
RECURSIVE ResultTasks(_, _)
ResultTasks(test_runs, p) ==
    IF p > Len(test_runs) THEN << >>
    ELSE (IF test_runs[p][2] # NoRun THEN <<p>> ELSE << >>)
            \o ResultTasks(test_runs, p + 1)

\* the loop of get_multiple_test_results: i counts the tasks consumed
RECURSIVE GetMultipleTestResults(_, _, _, _, _)
GetMultipleTestResults(test_runs, results, p, i, test_results) ==
    IF p > Len(test_runs) THEN test_results
    ELSE IF test_runs[p][2] # NoRun
    THEN GetMultipleTestResults(test_runs, results, p + 1, i + 1,
            DictSet(test_results, test_runs[p][1],
                    IF results[i].ok THEN results[i].val
                    ELSE <<"error", results[i].val>>))
    ELSE GetMultipleTestResults(test_runs, results, p + 1, i,
            DictSet(test_results, test_runs[p][1],
                    <<"error", "Test did not start successfully">>))

\* the loop of get_multiple_test_statuses
RECURSIVE GetMultipleTestStatuses(_, _, _, _)
GetMultipleTestStatuses(test_runs, statuses, p, result) ==
    IF p > Len(test_runs) THEN result
    ELSE GetMultipleTestStatuses(test_runs, statuses, p + 1,
            DictSet(result, test_runs[p][1],
                    IF statuses[p].ok THEN statuses[p].val ELSE "error"))

\* the loop of batch_process_tests: the summaries of the calls that succeeded
RECURSIVE BatchProcessTests(_, _, _)
BatchProcessTests(test_runs, summaries, p) ==
    IF p > Len(test_runs) THEN << >>
    ELSE (IF summaries[p].ok THEN <<summaries[p].val>> ELSE << >>)
            \o BatchProcessTests(test_runs, summaries, p + 1)

\* asyncio.gather(*tasks, return_exceptions=True): the outcomes in the order
\* of the tasks
Gather(tasks, done) == [j \in 1..Len(tasks) |-> done[tasks[j]]]

AllTasks(reqs) == [p \in 1..Len(reqs) |-> p]

FanIdle == [pc |-> "idle", fn |-> "none", req |-> << >>, done |-> << >>,
            out |-> << >>]

InitFan == fan = FanIdle

\* the batch function is called: it creates its tasks
FanCall(fn, reqs) ==
    /\ fan.pc \in {"idle", "done"}
    /\ fan' = [pc |-> "pending", fn |-> fn, req |-> reqs,
               done |-> [p \in 1..Len(reqs) |->
                           IF fn = "get_multiple_test_results"
                              /\ reqs[p][2] = NoRun
                           THEN NotCalled ELSE Pending],
               out |-> << >>]
    /\ UNCHANGED <<coreVars, config, inst, wt, ws, kv>>

\* one of the concurrent calls finishes, in any order
FanComplete(p, o) ==
    /\ fan.pc = "pending"
    /\ p \in 1..Len(fan.req)
    /\ fan.done[p] = Pending
    /\ fan' = [fan EXCEPT !.done[p] = o]
    /\ UNCHANGED <<coreVars, config, inst, wt, ws, kv>>

\* gather returns and the function assembles its output
FanJoin ==
    /\ fan.pc = "pending"
    /\ \A p \in 1..Len(fan.req) : fan.done[p] # Pending
    /\ fan' = [fan EXCEPT !.pc = "done", !.out =
            CASE fan.fn = "run_multiple_tests" ->
                    RunMultipleTests(fan.req,
                        Gather(AllTasks(fan.req), fan.done), 1, << >>)
              [] fan.fn = "get_multiple_test_results" ->
                    GetMultipleTestResults(fan.req,
                        Gather(ResultTasks(fan.req, 1), fan.done), 1, 1, << >>)
              [] fan.fn = "get_multiple_test_statuses" ->
                    GetMultipleTestStatuses(fan.req,
                        Gather(AllTasks(fan.req), fan.done), 1, << >>)
              [] OTHER ->
                    BatchProcessTests(fan.req,
                        Gather(AllTasks(fan.req), fan.done), 1)]
    /\ UNCHANGED <<coreVars, config, inst, wt, ws, kv>>

----------------------------------------------------------------------------
(* get_cache(): the cache of the configuration (src/src/cache.py)          *)

\* the entry "enabled" of the cache configuration
ConfigValues == {"absent", "true", "false"}

InitConfig == config = "absent"

\* a get_cache that never hands out the dummy
CacheEnabledAlways == TRUE

\* cache_config.get("enabled", True)
CacheEnabled == config # "false"

\* the configuration changes between two calls
SetConfig(c) ==
    /\ config' = c
    /\ UNCHANGED <<coreVars, fan, inst, wt, ws, kv>>

\* a method of DummyCache returns its constant and touches nothing: None for
\* get, True for set and invalidate, 0 (the field n) for clear and cleanup
DummyCall(op, k) ==
    /\ lastOp' = Event(op, k, << >>, op # "get", FALSE)
    /\ UNCHANGED <<moreVars, retryVars, ctx, other, gets, cl, files, now, ttl,
                   compression, w, stored>>

\* get_cache().get(test_id, run_id)
GetCacheGet(k) == IF CacheEnabled THEN Get(k) ELSE DummyCall("get", k)

\* get_cache().set(test_id, run_id, data)
GetCacheSet(k, data) ==
    IF CacheEnabled THEN SetCall(k, data) ELSE DummyCall("set", k)

\* get_cache().invalidate(test_id, run_id)
GetCacheInvalidate(k) ==
    IF CacheEnabled THEN Invalidate(k) ELSE DummyCall("invalidate", k)

\* get_cache().clear()
GetCacheClear == IF CacheEnabled THEN Clear ELSE DummyCall("clear", "k1")

\* get_cache().cleanup(max_age)
GetCacheCleanup(a) ==
    IF CacheEnabled THEN Cleanup(a) ELSE DummyCall("cleanup", "k1")

----------------------------------------------------------------------------
(* BreakingPointAPI.__init__: the retry settings of an instance            *)

\* RetryConfig(): base_delay = 1.0
DefaultBaseDelay == 1

\* RetryConfig.get_delay(retry), in seconds, before the jitter of at most a
\* tenth is added
GetDelay(base_delay, retry) == base_delay * (2 ^ retry)

\* api_config.get("retries", 3) and api_config.get("retry_delay", 5)
InstConfigs ==
    [retries : (0..MaxRetries) \cup {DefaultMaxRetries}, retry_delay : {1, 5}]

InitInst == inst = [retries |-> DefaultMaxRetries, retry_delay |-> 5]

\* BreakingPointAPI(...) with the api section cfg of the configuration: a new
\* client, not logged in, that has made no call
NewClient(cfg) ==
    /\ r.pc \in {"idle", "done"}
    /\ inst' = cfg
    /\ r' = RIdle
    /\ api' = [auth_token |-> FALSE, req |-> "none", kind |-> "none",
               exc |-> NoExc]
    /\ UNCHANGED <<cacheVars, ctx, other, gets, cl, fan, config, wt, ws, kv>>

----------------------------------------------------------------------------
(* run_and_analyze_tests and wait_for_tests_completion                     *)

\* the largest timeout argument, in poll intervals
MaxTimeout == 1

\* the clock stops this many poll intervals after the timeout
Overrun == 2

\* the statuses that end the waiting for a test
TerminalStatuses == {"completed", "stopped", "error", "failed"}

\* what a status request yields: a status, or an exception
StatusReplies == {"running", "completed", "failed", "exception"}

\* test_id -> run_id after run_multiple_tests: "absent" for a test that was
\* not requested, NoRun for one that failed to start
RunMaps == [TestIds -> {"absent", NoRun, "r1"}] \ {[t \in TestIds |-> "absent"]}

WtIdle == [pc |-> "idle", runs |-> [t \in TestIds |-> "absent"], pending |-> {},
           final |-> [t \in TestIds |-> "none"], elapsed |-> 0, timeout |-> 0,
           results |-> [t \in TestIds |-> "none"]]

InitWait == wt = WtIdle

\* pending_tests at the start of wait_for_tests_completion
Started(runs) == {t \in TestIds : runs[t] \notin {"absent", NoRun}}

\* run_and_analyze_tests is called and run_multiple_tests has returned runs
RunAndAnalyze(runs, wait_for_completion, timeout) ==
    /\ wt.pc \in {"idle", "done"}
    /\ wt' = IF wait_for_completion
             THEN [WtIdle EXCEPT !.pc = "poll", !.runs = runs,
                                 !.pending = Started(runs), !.timeout = timeout]
             ELSE [WtIdle EXCEPT !.pc = "done", !.runs = runs,
                                 !.results = [t \in TestIds |->
                                     IF runs[t] = "absent" THEN "none"
                                     ELSE "running"]]
    /\ UNCHANGED <<coreVars, fan, config, inst, ws, kv>>

\* one round of the loop of wait_for_tests_completion: the statuses of the
\* pending tests are gathered (st gives the reply for each test, read for
\* the pending ones) and the finished tests leave pending_tests; the function
\* returns when none is left
WaitPoll(st) ==
    /\ wt.pc = "poll"
    /\ LET ended == {t \in wt.pending :
                        st[t] = "exception" \/ st[t] \in TerminalStatuses}
       IN  wt' = [wt EXCEPT
                    !.final = [t \in TestIds |->
                                 IF t \in ended
                                 THEN (IF st[t] = "exception" THEN "error"
                                       ELSE st[t])
                                 ELSE wt.final[t]],
                    !.pending = wt.pending \ ended,
                    !.pc = IF wt.pending \ ended = {} THEN "check" ELSE "sleep"]
    /\ UNCHANGED <<coreVars, fan, config, inst, ws, kv>>

\* await asyncio.sleep(poll_interval)
WaitSleep ==
    /\ wt.pc = "sleep"
    /\ wt.elapsed < wt.timeout + Overrun
    /\ wt' = [wt EXCEPT !.pc = "poll", !.elapsed = wt.elapsed + 1]
    /\ UNCHANGED <<coreVars, fan, config, inst, ws, kv>>

\* back in run_and_analyze_tests: all_completed, else the timeout check
WaitCheck ==
    /\ wt.pc = "check"
    /\ LET all_completed ==
              \A t \in TestIds :
                  wt.final[t] # "none" => wt.final[t] \in TerminalStatuses
       IN  wt' = IF all_completed \/ wt.elapsed > wt.timeout
                 THEN [wt EXCEPT !.pc = "collect"]
                 ELSE [wt EXCEPT !.pc = "poll", !.pending = Started(wt.runs),
                                 !.final = [t \in TestIds |-> "none"]]
    /\ UNCHANGED <<coreVars, fan, config, inst, ws, kv>>

\* the summaries are fetched, one test after the other; ok tells which
\* fetches succeed
Collect(ok) ==
    /\ wt.pc = "collect"
    /\ wt' = [wt EXCEPT !.pc = "done",
                !.results = [t \in TestIds |->
                    IF wt.runs[t] = "absent" THEN "none"
                    ELSE IF wt.runs[t] = NoRun THEN "error"
                    ELSE IF ok[t] THEN "summary" ELSE "error"]]
    /\ UNCHANGED <<coreVars, fan, config, inst, ws, kv>>

----------------------------------------------------------------------------
(* Two calls of ResultCache.set on one key, in two threads or processes    *)

Writers == {"w1", "w2"}

\* a writer: where it is in set, its payload, the offset of its file handle,
\* where the file its handle is open on is linked now, and what set returned
WsIdle == [pc |-> "idle", data |-> << >>, pos |-> 1, at |-> "none",
           result |-> "none"]

InitWriters == ws = [i \in Writers |-> WsIdle]

\* the key the writers share, and its two paths (uncompressed store)
WsTemp == TempPath("k1", "json")

WsFinal == CachePath("k1", "json")

\* a write of one chunk at offset pos of a file: it overwrites what is
\* there, and fills a gap behind the end of the file with NUL bytes
WriteAt(content, pos, tok) ==
    IF pos <= Len(content)
    THEN [content EXCEPT ![pos] = tok]
    ELSE content \o [j \in 1..(pos - 1 - Len(content)) |-> "NUL"] \o <<tok>>

\* set(test_id, run_id, data) is called by writer i with a non-empty payload
SetCallBy(i, data) ==
    /\ ws[i].pc \in {"idle", "done"}
    /\ ws' = [ws EXCEPT ![i] = [WsIdle EXCEPT !.pc = "open", !.data = data]]
    /\ UNCHANGED <<coreVars, fan, config, inst, wt, kv>>

\* open(temp_path, 'w'): creates the file, or truncates the file that has
\* the name, which is the file the other writer may be writing
SetOpenBy(i) ==
    /\ ws[i].pc = "open"
    /\ files' = [files EXCEPT ![WsTemp] =
                    [exists |-> TRUE, content |-> << >>, mtime |-> now]]
    /\ ws' = [ws EXCEPT ![i].pc = "write", ![i].at = "temp"]
    /\ UNCHANGED <<moreVarsButWs, retryVars, ctx, other, gets, cl, now, ttl,
                   compression, w, lastOp, stored>>

\* json.dump writes the next chunk through the writer's handle, at the
\* handle's own offset
SetWriteBy(i) ==
    LET toks == json_dump(ws[i].data).toks
        p == IF ws[i].at = "temp" THEN WsTemp ELSE WsFinal
    IN
    /\ ws[i].pc = "write"
    /\ ws[i].pos <= Len(toks)
    /\ files' = IF ws[i].at \in {"temp", "final"}
                THEN [files EXCEPT ![p] =
                        [exists |-> TRUE,
                         content |-> WriteAt(files[p].content, ws[i].pos,
                                             toks[ws[i].pos]),
                         mtime |-> now]]
                ELSE files
    /\ ws' = [ws EXCEPT ![i].pos = ws[i].pos + 1]
    /\ UNCHANGED <<moreVarsButWs, retryVars, ctx, other, gets, cl, now, ttl,
                   compression, w, lastOp, stored>>

\* the with block closes the handle
SetCloseBy(i) ==
    /\ ws[i].pc = "write"
    /\ ws[i].pos > Len(json_dump(ws[i].data).toks)
    /\ ws' = [ws EXCEPT ![i].pc = "replace", ![i].at = "none"]
    /\ UNCHANGED <<coreVars, fan, config, inst, wt, kv>>

\* os.replace(temp_path, cache_path): the file named temp_path gets the
\* final name, whoever wrote it, and the handles open on it stay open; if the
\* other writer has renamed the file already, FileNotFoundError
SetReplaceBy(i) ==
    /\ ws[i].pc = "replace"
    /\ IF files[WsTemp].exists
       THEN /\ files' = [files EXCEPT ![WsFinal] = files[WsTemp],
                                      ![WsTemp] = NoFile]
            /\ ws' = [j \in Writers |->
                        IF j = i
                        THEN [ws[j] EXCEPT !.pc = "done", !.result = "true"]
                        ELSE [ws[j] EXCEPT !.at =
                                CASE ws[j].at = "temp" -> "final"
                                  [] ws[j].at = "final" -> "unlinked"
                                  [] OTHER -> ws[j].at]]
       ELSE /\ UNCHANGED files
            /\ ws' = [ws EXCEPT ![i].pc = "done", ![i].result =
                        IF SetExcept(Foreign("OSError")).raised
                        THEN "raised" ELSE "false"]
    /\ UNCHANGED <<moreVarsButWs, retryVars, ctx, other, gets, cl, now, ttl,
                   compression, w, lastOp, stored>>

----------------------------------------------------------------------------
(* ResultCache._get_cache_key: the entry of a (test_id, run_id) pair       *)

\* the longest identifier, in characters
MaxIdLen == 2

\* the entries the store holds at most
MaxEntries == 1

\* identifiers are strings of these characters
Chars == {"a", "_"}

Ids == UNION {[1..n -> Chars] : n \in 1..MaxIdLen}

\* run_id + "_summary": "s" stands for the word summary
SummaryOf(run_id) == run_id \o <<"_", "s">>

\* the second argument of get, set and invalidate: a run id, or the sub-id
\* of its summary
SubIds == Ids \cup {SummaryOf(b) : b \in Ids}

\* hashlib.md5(f"{test_id}_{run_id}".encode()).hexdigest(); the digest is
\* taken as free of collisions, so it is written as the string it digests
CacheKey(test_id, run_id) == <<"md5">> \o test_id \o <<"_">> \o run_id

NoEntry == << >>

\* the store holds the set of its entries, each a pair of key and payload
InitKeyed == kv = [entries |-> {}, last |-> NoEntry]

\* the payload stored under a key, NoEntry if there is none
EntryOf(key) ==
    IF \E e \in kv.entries : e[1] = key
    THEN (CHOOSE e \in kv.entries : e[1] = key)[2]
    ELSE NoEntry

\* what get(test_id, run_id) returns (miss is NoEntry), the entries being
\* within their TTL
GetOf(test_id, run_id) == EntryOf(CacheKey(test_id, run_id))

KvGet(test_id, run_id) ==
    /\ kv' = [kv EXCEPT !.last = GetOf(test_id, run_id)]
    /\ UNCHANGED <<coreVars, fan, config, inst, wt, ws>>

\* set(test_id, run_id, data) writes the file named by the key
KvSet(test_id, run_id, data) ==
    LET key == CacheKey(test_id, run_id) IN
    /\ \/ EntryOf(key) # NoEntry
       \/ Cardinality(kv.entries) < MaxEntries
    /\ kv' = [kv EXCEPT !.entries =
                {e \in kv.entries : e[1] # key} \cup {<<key, data>>}]
    /\ UNCHANGED <<coreVars, fan, config, inst, wt, ws>>

\* invalidate(test_id, run_id) removes the file named by the key
KvInvalidate(test_id, run_id) ==
    /\ kv' = [kv EXCEPT !.entries =
                {e \in kv.entries : e[1] # CacheKey(test_id, run_id)}]
    /\ UNCHANGED <<coreVars, fan, config, inst, wt, ws>>

\* the steps of get and set, and time
CacheStep ==
    \/ \E k \in Keys : Get(k)
    \/ \E k \in Keys, d \in SetInputs : SetCall(k, d)
    \/ SetOpenTemp
    \/ SetWrite
    \/ SetClose
    \/ SetReplace
    \/ Tick

Next ==
    \/ CacheStep
    \/ \E k \in Keys, e \in Exts : \E g \in Garbage(e) : Corrupt(k, e, g)
    \/ SetIOError
    \/ Crash

NextMixed ==
    \/ CacheStep
    \/ SwitchCompression

NextRetry ==
    \/ \E m \in 0..MaxRetries, c \in RetryConfigs : RetryCall(m, c)
    \/ \E e \in OpErrors : OpRaises(e)
    \/ OpReturns
    \/ Sleep

NextApi ==
    \/ \E f \in {"login", "_api_call"} : ApiCall(f)
    \/ \E q \in Requests : LoginAttempt(q)
    \/ \E q \in Requests : ApiAttempt(q)
    \/ \E q \in {"ok", "ConnectionError"} : Logout(q)
    \/ Sleep

Init ==
    /\ InitCache /\ InitRetry /\ InitCtx /\ InitReaders /\ InitClient
    /\ InitFan /\ InitConfig /\ InitInst /\ InitWait
    /\ InitWriters /\ InitKeyed

\* one store, whose compression setting never changes; I/O steps of set may
\* fail and the writing process may be killed
Spec == Init /\ [][Next]_vars

\* stores with either compression setting on one directory
SpecMixed == Init /\ [][NextMixed]_vars

\* a function wrapped by retry_with_backoff, under every configuration
SpecRetry == Init /\ [][NextRetry]_vars

\* BreakingPointAPI.login and _api_call behind retry_with_backoff()
SpecApi == Init /\ [][NextApi]_vars

NextMaint ==
    \/ \E k \in Keys : Get(k)
    \/ \E k \in Keys : SetCall(k, P1)
    \/ SetOpenTemp
    \/ SetWrite
    \/ SetClose
    \/ SetReplace
    \/ Tick
    \/ SwitchCompression
    \/ \E k \in Keys : Invalidate(k)
    \/ Clear
    \/ \E a \in MaxAges : Cleanup(a)
    \/ PutOther

\* a cache directory used by stores of either compression setting, with the
\* maintenance calls; every set stores the same payload
SpecMaint == Init /\ [][NextMaint]_vars

NextReaders ==
    \/ \E k \in Keys, d \in GoodPayloads : SetCallAlone(k, d)
    \/ SetOpenTemp
    \/ SetWrite
    \/ SetClose
    \/ SetReplace
    \/ Tick
    \/ \E i \in Readers, k \in Keys : GetCall(i, k)
    \/ \E i \in Readers : GetExists(i)
    \/ \E i \in Readers : GetMtime(i)
    \/ \E i \in Readers : GetOpen(i)
    \/ \E i \in Readers : GetRead(i)

\* a store with the longest TTL
InitLongTTL == Init /\ ttl = MaxTTL

\* one writing process and the reading processes, interleaved file operation
\* by file operation
SpecReaders == InitLongTTL /\ [][NextReaders]_vars

NextClient ==
    \/ \E k \in Keys : GtrCall(k)
    \/ GtrLookup
    \/ \E q \in Requests, d \in FetchPayloads : GtrFetch(q, d)
    \/ GtrStore
    \/ Tick

\* clients of any retry settings, and their calls
NextInjected ==
    \/ \E cfg \in InstConfigs : NewClient(cfg)
    \/ NextApi

\* run_and_analyze_tests, with tests that finish, fail or keep running
NextWait ==
    \/ \E runs \in RunMaps, wfc \in BOOLEAN, t \in 0..MaxTimeout :
            RunAndAnalyze(runs, wfc, t)
    \/ \E st \in [TestIds -> StatusReplies] : WaitPoll(st)
    \/ WaitSleep
    \/ WaitCheck
    \/ \E ok \in [TestIds -> BOOLEAN] : Collect(ok)

\* two writers of one key, one file operation per step
NextWriters ==
    \/ \E i \in Writers : \E d \in {P1, P2} : SetCallBy(i, d)
    \/ \E i \in Writers : SetOpenBy(i)
    \/ \E i \in Writers : SetWriteBy(i)
    \/ \E i \in Writers : SetCloseBy(i)
    \/ \E i \in Writers : SetReplaceBy(i)

\* a store used with identifiers that may contain '_', and with summaries
NextKeyed ==
    \/ \E a \in Ids, b \in SubIds : KvGet(a, b)
    \/ \E a \in Ids, b \in SubIds : \E d \in GoodPayloads : KvSet(a, b, d)
    \/ \E a \in Ids, b \in SubIds : KvInvalidate(a, b)

\* readers and a writer of a key whose file may be overwritten with garbage
\* from outside; no time passes
NextRace ==
    \/ \E k \in Keys : SetCall(k, P1)
    \/ SetOpenTemp
    \/ SetWrite
    \/ SetClose
    \/ SetReplace
    \/ \E k \in Keys, ext \in Exts : \E g \in Garbage(ext) : Corrupt(k, ext, g)
    \/ \E i \in Readers, k \in Keys : GetCall(i, k)
    \/ \E i \in Readers : GetExists(i)
    \/ \E i \in Readers : GetMtime(i)
    \/ \E i \in Readers : GetOpen(i)
    \/ \E i \in Readers : GetParse(i)
    \/ \E i \in Readers : GetRemove(i)

\* every call goes through get_cache(), and the configuration may change
\* between two calls
NextConfig ==
    \/ \E k \in Keys : GetCacheGet(k)
    \/ \E k \in Keys : GetCacheSet(k, P1)
    \/ SetOpenTemp
    \/ SetWrite
    \/ SetClose
    \/ SetReplace
    \/ Tick
    \/ \E k \in Keys : GetCacheInvalidate(k)
    \/ GetCacheClear
    \/ \E a \in MaxAges : GetCacheCleanup(a)
    \/ \E c \in ConfigValues : SetConfig(c)

\* the batch functions, called one after the other
NextFan ==
    \/ \E fn \in FanFns : \E reqs \in RequestLists(fn) : FanCall(fn, reqs)
    \/ \E p \in 1..MaxReqs : \E o \in Outcomes : FanComplete(p, o)
    \/ FanJoin

\* a logged-in client that calls get_test_results again and again
SpecClient == Init /\ [][NextClient]_vars

NextContext ==
    \/ \E i \in 1..MaxDepth, k \in ContextKinds : \E info \in InfoMaps(i) : Enter(info, k)
    \/ \E e \in BodyErrors : \E d \in OwnDetails(e.cls) : BodyRaises(e, d)
    \/ BodyReturns
    \/ \E cb \in {"returns", "raises"} : ExitStep(cb)

\* the cache plays no part: it has one configuration
InitOneCache == Init /\ ttl = MaxTTL /\ ~compression

\* with ErrorContext(...) blocks, nested up to MaxDepth
SpecContext == InitOneCache /\ [][NextContext]_vars

\* the cache of get_cache(), enabled or disabled by the configuration
SpecConfig == InitOneCache /\ [][NextConfig]_vars

\* API clients constructed with any retry settings
SpecInjected == Init /\ [][NextInjected]_vars

\* run_and_analyze_tests on tests that may never finish
SpecWait == InitOneCache /\ [][NextWait]_vars

\* two concurrent calls of set on one key
SpecWriters == InitOneCache /\ [][NextWriters]_vars

\* a store whose entries are addressed by (test_id, run_id) pairs
SpecKeyed == InitOneCache /\ [][NextKeyed]_vars

\* gets that remove a corrupt file while a set replaces it
SpecRace == InitLongTTL /\ [][NextRace]_vars

SpecFan == InitOneCache /\ [][NextFan]_vars

----------------------------------------------------------------------------
(* Properties of the cache                                                 *)

\* the step is a call of get (every other step changes w or records
\* another event)
IsGetStep(k) == lastOp'.op = "get" /\ lastOp'.key = k /\ w' = w

\* the content a completed set leaves at the canonical path
Encoded(P, ext) ==
    IF ext = "gz" THEN <<"GZH">> \o json_dump(P).toks \o <<"GZT">>
    ELSE json_dump(P).toks

StoredAge(k) == FileAge(CachePath(k, stored[k].ext))

\* C1 - round trip: a get that follows a successful set(id, sub, P) on the
\* same key immediately, the entry's age being below the TTL, returns a
\* value equal to P.
C1_RoundTrip ==
    (/\ lastOp.op = "get"
     /\ lastOp.afterSet
     /\ StoredAge(lastOp.key) < ttl)
    => (lastOp.ok /\ lastOp.data = stored[lastOp.key].data)

C1_Witness ==
    /\ lastOp.op = "get"
    /\ lastOp.afterSet
    /\ StoredAge(lastOp.key) < ttl
    /\ lastOp.ok
    /\ lastOp.data = P2

\* C2 - atomicity: no canonical path ever holds a partially written payload
\* (its content is a complete payload or garbage written from outside), and
\* no step of set before the completed rename, nor the kill of the writing
\* process, changes a canonical file.
C2_NoPartial ==
    \A k \in Keys, e \in Exts :
        files[CachePath(k, e)].exists =>
            files[CachePath(k, e)].content \in
                {Encoded(P, e) : P \in GoodPayloads} \cup Garbage(e)

C2_BeforeRename ==
    (/\ w.pc # "idle"
     /\ w' # w
     /\ ~(w.pc = "replace" /\ lastOp'.op = "set" /\ lastOp'.ok))
    => \A k \in Keys, e \in Exts :
          files'[CachePath(k, e)] = files[CachePath(k, e)]

C2_Atomicity == [][C2_BeforeRename]_vars /\ []C2_NoPartial

\* the writer was killed with a partial temp file next to a complete entry
C2_Witness ==
    /\ lastOp.op = "crash"
    /\ \E k \in Keys, e \in Exts :
          /\ files[TempPath(k, e)].exists
          /\ files[TempPath(k, e)].content \notin
                {Encoded(P, e) : P \in GoodPayloads}
          /\ files[CachePath(k, e)].exists
          /\ files[CachePath(k, e)].content \in
                {Encoded(P, e) : P \in GoodPayloads}

\* C3 - a set that does not store the payload returns False without
\* raising, and leaves no temp file of the key behind.
C3_FailedSetClean ==
    (lastOp.op = "set" /\ ~lastOp.ok)
    => /\ ~lastOp.raised
       /\ \A e \in Exts : ~files[TempPath(lastOp.key, e)].exists

\* C4 - corruption recovery: when the file get reads (the first existing
\* path of the key, not expired) cannot be read back as a payload, get
\* returns miss without raising and the file is gone afterwards.
C4_Step ==
    \A k \in Keys :
        (/\ IsGetStep(k)
         /\ files[GetPath(k)].exists
         /\ ~FileExpired(GetPath(k))
         /\ ReadFile(GetPath(k)).status # "ok")
        => (/\ ~lastOp'.ok
            /\ ~lastOp'.raised
            /\ ~files'[GetPath(k)].exists)

C4_CorruptionRecovery == [][C4_Step]_vars

\* C5 - full replacement across encodings: a get within TTL of the last
\* successful set on the key returns the payload of that set, whatever the
\* compression settings of the sets that wrote the key.
C5_FullReplacement ==
    (/\ lastOp.op = "get"
     /\ stored[lastOp.key].valid
     /\ StoredAge(lastOp.key) < ttl)
    => (lastOp.ok /\ lastOp.data = stored[lastOp.key].data)

\* C6 - expiry: a get on an entry stored by set returns its payload while
\* the entry's age is below the TTL and miss once the age is above the TTL;
\* a set that completes gives the entry a modification time not earlier
\* than the start of that set (the age restarts).
C6_Ages ==
    (lastOp.op = "get" /\ stored[lastOp.key].valid)
    => /\ (StoredAge(lastOp.key) < ttl
             => (lastOp.ok /\ lastOp.data = stored[lastOp.key].data))
       /\ (StoredAge(lastOp.key) > ttl => ~lastOp.ok)

C6_Restart ==
    (w.pc = "replace" /\ w'.pc = "idle" /\ lastOp'.op = "set" /\ lastOp'.ok)
    => /\ files'[CachePath(w.key, ExtOf(w.gz))].exists
       /\ files'[CachePath(w.key, ExtOf(w.gz))].mtime >= w.start
       /\ stored'[w.key].data = w.data

----------------------------------------------------------------------------
(* Properties of the retry wrapper and of the API boundary                 *)

FlagFalse(e) == e.has_rp /\ ~e.rp

\* the error x that propagates is the error e the operation raised (the
\* wrapper may have set its retry_count on exhaustion)
SameError(x, e) == x = [e EXCEPT !.retry_count = x.retry_count]

\* C7 - retry bound: when every attempt of the operation raised an error
\* whose category is in the configured retryable set and whose flag is not
\* false, the call ends after exactly max_retries + 1 attempts and
\* max_retries sleeps by raising the last error of the operation.
C7_RetryBound ==
    (r.fn = "op" /\ r.pc = "done" /\ r.allRetryable)
    => /\ r.attempts = r.max_retries + 1
       /\ r.sleeps = r.max_retries
       /\ r.result = "raise"
       /\ SameError(r.exc, r.last)

C7_Witness ==
    /\ r.fn = "op"
    /\ r.pc = "done"
    /\ r.allRetryable
    /\ r.max_retries = 2
    /\ r.attempts = 3
    /\ r.cfg.given
    /\ r.result = "raise"

\* C8 - short circuit: an attempt that raises an error whose flag
\* retry_possible is false ends the call at once (that error is raised, no
\* attempt and no sleep follow); if the first error carries the flag false
\* the operation is attempted exactly once; authentication, validation,
\* not-found and configuration errors always carry the flag false.
C8_ShortCircuit ==
    (r.fn = "op") =>
    /\ (r.last # NoExc /\ FlagFalse(r.last))
          => /\ r.pc = "done"
             /\ r.result = "raise"
             /\ r.exc = r.last
             /\ r.sleeps = r.attempts - 1
    /\ r.firstFlagFalse
          => (r.pc = "done" /\ r.attempts = 1 /\ r.sleeps = 0 /\ r.result = "raise")
    /\ r.last.cls \in {"AuthenticationError", "ValidationError",
                       "ResourceNotFoundError", "ConfigurationError"}
          => FlagFalse(r.last)

\* a network error that says it cannot be retried, under the default set
\* and a retry budget of 2
C8_Witness ==
    /\ r.fn = "op"
    /\ r.pc = "done"
    /\ r.max_retries = 2
    /\ r.last = NewNetworkError(TRUE, 3, NoneVal)
    /\ Caught(r.last, r.cfg)
    /\ r.attempts = 1
    /\ r.result = "raise"

\* C9 - for every retryable set the caller passes, the empty one included,
\* an attempt that raises an error whose category is not in that set ends
\* the call at once: the error is raised, no sleep and no attempt follow.
C9_NotInSet ==
    (/\ r.fn = "op"
     /\ r.last # NoExc
     /\ r.cfg.given
     /\ ~\E d \in r.cfg.set : IsSubclass(r.last.cls, d))
    => (r.pc = "done" /\ r.result = "raise" /\ r.exc = r.last)

\* C10 - an attempt of _api_call whose request failed (connection error,
\* timeout, HTTP error status) ends by raising a member of the taxonomy; it
\* does not return.
C10_FailedRequestRaises ==
    (/\ r.fn = "_api_call"
     /\ r.attempts >= 1
     /\ api.req \in FailedRequests)
    => (api.kind = "raise" /\ IsSubclass(api.exc.cls, "BPError"))

\* the failures of a request that a later attempt may not meet again
TransientRequests == {"ConnectionError", "Timeout", "http429", "http500"}

\* C11 - a call of login or _api_call whose last attempt failed with a
\* network error, an HTTP 5xx status or HTTP 429 has ended only when the
\* retry bound is reached: the wrapper made max_retries + 1 attempts and
\* then raised the structured error.
C11_TransientRetried ==
    (/\ r.fn \in {"login", "_api_call"}
     /\ r.pc = "done"
     /\ api.req \in TransientRequests)
    => /\ r.attempts = DefaultMaxRetries + 1
       /\ r.result = "raise"
       /\ IsSubclass(r.exc.cls, "BPError")

----------------------------------------------------------------------------
(* Properties of ErrorContext                                              *)

\* C12 - when an exception that is not a member of the taxonomy leaves an
\* ErrorContext configured with BPError, APIError or CacheError, what
\* propagates is an error of the configured kind whose details are the
\* context map and whose cause is the original exception.
C12_ForeignConverted ==
    (ctx.last.done /\ ~IsSubclass(ctx.last.exc.cls, "BPError"))
    => /\ ~ctx.last.out.suppressed
       /\ ctx.last.out.exc.cls = ctx.last.context.error_type
       /\ ctx.last.out.details = ctx.last.context.info
       /\ ctx.last.out.cause = ctx.last.exc.cls

\* the keys a map holds
KeysOf(d) == {k \in InfoKeys : d[k] # Absent}

\* the innermost of the contexts open at the raise that holds key k
Innermost(k) ==
    CHOOSE i \in 1..Len(ctx.at) :
        /\ ctx.at[i].info[k] # Absent
        /\ \A j \in (i + 1)..Len(ctx.at) : ctx.at[j].info[k] = Absent

\* the value of key k set first: by the error itself, else by the innermost
\* context that has the key
FirstSet(k) ==
    IF ctx.own[k] # Absent THEN ctx.own[k]
    ELSE IF \E i \in 1..Len(ctx.at) : ctx.at[i].info[k] # Absent
    THEN ctx.at[Innermost(k)].info[k]
    ELSE Absent

\* C13 - a taxonomy error that leaves an ErrorContext without recovery
\* callback propagates unchanged but for its details: every key it had keeps
\* its value, and exactly the context keys it did not have are added with
\* the context's values.
C13_OneContext ==
    (/\ ctx.last.done
     /\ IsSubclass(ctx.last.exc.cls, "BPError")
     /\ ~ctx.last.context.recovery)
    => /\ ~ctx.last.out.suppressed
       /\ ctx.last.out.exc = ctx.last.exc
       /\ KeysOf(ctx.last.out.details)
            = KeysOf(ctx.last.details) \cup KeysOf(ctx.last.context.info)
       /\ \A k \in KeysOf(ctx.last.details) :
            ctx.last.out.details[k] = ctx.last.details[k]
       /\ \A k \in KeysOf(ctx.last.context.info) \ KeysOf(ctx.last.details) :
            ctx.last.out.details[k] = ctx.last.context.info[k]

\* through nested contexts without recovery callback, the error that leaves
\* the outermost one is the error raised, and each key has the value set
\* first
C13_Nested ==
    (/\ ctx.pc = "done"
     /\ ctx.crossed = Len(ctx.at)
     /\ IsSubclass(ctx.raised.cls, "BPError")
     /\ ~ctx.recovering)
    => /\ ctx.exc = ctx.raised
       /\ \A k \in InfoKeys : ctx.details[k] = FirstSet(k)

C13_ContextMerge == C13_OneContext /\ C13_Nested

\* a network error whose own details hold endpoint has left two nested
\* contexts that both give endpoint and host
C13_Witness ==
    /\ ctx.pc = "done"
    /\ Len(ctx.at) = 2
    /\ ctx.crossed = 2
    /\ ~ctx.recovering
    /\ ctx.raised.cls = "NetworkError"
    /\ \A i \in 1..2 : KeysOf(ctx.at[i].info) = InfoKeys
    /\ ctx.details = [endpoint |-> Own, host |-> LevelTag(2)]

\* C14 - on exit of an ErrorContext the recovery callback is called at most
\* once, and only if there is one and the exception is an APIError or a
\* TestError; when it returns the exception is suppressed; when it raises
\* the exception is handled as without callback: context merged, the same
\* error propagated.
C14_Recovery ==
    ctx.last.done =>
    LET l == ctx.last
        apiOrTest == IsSubclass(l.exc.cls, "APIError") \/ IsSubclass(l.exc.cls, "TestError")
    IN
    /\ l.out.invoked \in {0, 1}
    /\ l.out.invoked = 1 <=> (l.context.recovery /\ apiOrTest)
    /\ (l.out.invoked = 1 /\ l.cb = "returns") => l.out.suppressed
    /\ (l.out.invoked = 1 /\ l.cb = "raises")
         => /\ ~l.out.suppressed
            /\ l.out.exc = l.exc
            /\ KeysOf(l.out.details) = KeysOf(l.details) \cup KeysOf(l.context.info)
            /\ \A k \in KeysOf(l.details) : l.out.details[k] = l.details[k]
    /\ l.out.invoked = 0 => ~l.out.suppressed

\* the callback of the inner of two contexts raised on a test error, and
\* that of the outer one returned
C14_Witness ==
    /\ ctx.last.done
    /\ ctx.pc = "done"
    /\ Len(ctx.at) = 2
    /\ ctx.raised.cls = "TestError"
    /\ ctx.at[2].recovery
    /\ ctx.last.level = 1
    /\ ctx.last.out.invoked = 1
    /\ ctx.last.out.suppressed
    /\ ctx.last.details["host"] = LevelTag(2)

----------------------------------------------------------------------------
(* Properties of invalidate, cleanup and clear                             *)

\* the key has no cache file
NoFileOf(k) == \A e \in Exts : ~files[CachePath(k, e)].exists

\* invalidate of a key without file returns False and changes nothing
C15_AbsentKey ==
    \A k \in Keys :
        (Invalidate(k) /\ NoFileOf(k)) => (~lastOp'.ok /\ files' = files)

\* the first invalidate after a successful set of the key returns True and
\* leaves the key without file, so that get misses; the second returns False
C15_Twice ==
    lastOp.op = "invalidate" =>
    /\ lastOp.seq = 1 => (lastOp.ok /\ ~GetOutcome(lastOp.key).hit)
    /\ lastOp.seq = 2 => ~lastOp.ok

CacheFileName(p) == p.tmp = FALSE

\* the recognized cache files older than lim seconds
Stale(lim) ==
    {p \in Paths : files[p].exists /\ CacheFileName(p) /\ now - files[p].mtime > lim}

\* C16 - for every maxAgeSeconds the caller passes (0 included),
\* cleanup(maxAgeSeconds) removes every recognized cache file whose age
\* exceeds maxAgeSeconds and no other file, and returns the number of files
\* removed; without argument the limit is the TTL.
C16_Step ==
    \A a \in MaxAges :
        Cleanup(a) =>
            LET S == Stale(IF a = NoneVal THEN ttl ELSE a) IN
            /\ \A p \in Paths : files'[p] = IF p \in S THEN NoFile ELSE files[p]
            /\ lastOp'.n = Cardinality(S)
            /\ other' = other

C16_CleanupExact == [][C16_Step]_vars

\* C17 - clear() removes every file of the cache directory whose name ends
\* in .json or .json.gz, returns the number of files it removed, leaves
\* every other file untouched, and afterwards get misses for every key.
C17_Step ==
    Clear =>
        /\ \A p \in Paths : CacheFileName(p) => ~files'[p].exists
        /\ \A p \in Paths : ~CacheFileName(p) => files'[p] = files[p]
        /\ other' = other
        /\ lastOp'.n = Cardinality({p \in Paths : files[p].exists /\ ~files'[p].exists})
        /\ lastOp'.n = Cardinality({p \in Paths : files[p].exists /\ CacheFileName(p)})
        /\ \A k \in Keys : ~(GetOutcome(k).hit)'

----------------------------------------------------------------------------
(* Stores of both compression settings on one directory                    *)

\* C18 - if the only file of a key was written by set under one compression
\* setting, a get by a store of the other setting, the file's age being
\* within the TTL, returns the payload of that set; in both directions.
C18_DualEncoding ==
    LET k == lastOp.key IN
    (/\ lastOp.op = "get"
     /\ stored[k].valid
     /\ stored[k].ext # ExtOf(compression)
     /\ ~files[CachePath(k, ExtOf(compression))].exists
     /\ StoredAge(k) <= ttl)
    => (lastOp.ok /\ lastOp.data = stored[k].data)

\* an uncompressed store has read the payload a compressed store wrote
C18_Witness ==
    /\ lastOp.op = "get"
    /\ ~compression
    /\ stored[lastOp.key].valid
    /\ stored[lastOp.key].ext = "gz"
    /\ ~files[CachePath(lastOp.key, "json")].exists
    /\ files[CachePath(lastOp.key, "gz")].content = Encoded(P2, "gz")
    /\ StoredAge(lastOp.key) = ttl
    /\ lastOp.ok
    /\ lastOp.data = P2

----------------------------------------------------------------------------
(* Readers concurrent with the writer                                      *)

\* the payloads a get may return: the one stored under the key when get was
\* called, and the one stored when it returned
Allowed(i) ==
    {gets[i].prev.data : x \in {1} \cap (IF gets[i].prev.valid THEN {1} ELSE {})}
    \cup {gets[i].cur.data : x \in {1} \cap (IF gets[i].cur.valid THEN {1} ELSE {})}

----------------------------------------------------------------------------
(* Cache-first retrieval of test results                                   *)

\* the cache holds data under key k
Holds(k, data) ==
    LET p == CachePath(k, ExtOf(compression)) IN
    /\ files[p].exists
    /\ ReadFile(p).status = "ok"
    /\ ReadFile(p).data = data

\* a network fetch is made only after the cache get missed
C20_FetchOnMiss == cl.fetched => ~cl.got

----------------------------------------------------------------------------
(* Further properties of the retry wrapper                                 *)

\* the bound a NetworkError compares its retry_count with: its max_retries,
\* or 3 when it has none
MaxRetriesOf(e) == IF e.max_retries = NoneVal THEN 3 ELSE e.max_retries

\* C21 - for every NetworkError, at construction and at every later point
\* (also after the retry wrapper has set its retry_count on exhaustion),
\* retry_possible equals (retry_count < max_retries).
C21_FlagInvariant ==
    \A e \in {r.last, r.exc, api.exc} :
        e.cls = "NetworkError" => (e.rp <=> e.retry_count < MaxRetriesOf(e))

----------------------------------------------------------------------------
(* Properties of the batch operations                                      *)

\* the error markers of the batch functions
ErrorMarkers ==
    {NoRun, "error"} \cup ({"error"} \X (ErrorTexts \cup {"Test did not start successfully"}))

\* the outcome of the call made for request p, as the output is to report it
OwnOutcome(p) ==
    IF fan.done[p].ok THEN {fan.done[p].val} ELSE ErrorMarkers

\* C22 - when a batch function has returned, its output has one entry per
\* request, in the order of the request list, and the entry of each request
\* is the outcome of that request's own call: its value, or an error marker
\* if the call failed.
C22_FanOut ==
    fan.pc = "done" =>
        /\ Len(fan.out) = Len(fan.req)
        /\ \A p \in 1..Len(fan.req) :
              IF fan.fn = "batch_process_tests"
              THEN fan.out[p] \in OwnOutcome(p)
              ELSE /\ fan.out[p][1] = fan.req[p][1]
                   /\ fan.out[p][2] \in OwnOutcome(p)

----------------------------------------------------------------------------
(* Properties of get_cache()                                               *)

\* the call returned what the disabled cache is to return, and the cache
\* directory is as it was
NoOpReturn(op, k, ok) ==
    /\ lastOp' = Event(op, k, << >>, ok, FALSE)
    /\ files' = files

\* C23 - while caching is disabled in the configuration, every call made
\* through get_cache() is a no-op: get returns miss, set and invalidate return
\* true, clear and cleanup return 0, and no file of the cache directory is
\* created, changed or removed.
C23_DisabledNoOp ==
    [][config = "false" =>
        /\ \A k \in Keys : GetCacheGet(k) => NoOpReturn("get", k, FALSE)
        /\ \A k \in Keys : GetCacheSet(k, P1) => NoOpReturn("set", k, TRUE)
        /\ \A k \in Keys :
              GetCacheInvalidate(k) => NoOpReturn("invalidate", k, TRUE)
        /\ GetCacheClear => NoOpReturn("clear", "k1", TRUE) /\ lastOp'.n = 0
        /\ \A a \in MaxAges :
              GetCacheCleanup(a) => NoOpReturn("cleanup", "k1", TRUE) /\ lastOp'.n = 0
    ]_vars

\* a get through the disabled cache has missed although the key's file is
\* there, complete and within its TTL
C23_Witness ==
    /\ config = "false"
    /\ lastOp.op = "get"
    /\ ~lastOp.ok
    /\ w.pc = "idle"
    /\ \E k \in Keys :
          /\ lastOp.key = k
          /\ files[CachePath(k, ExtOf(compression))].exists
          /\ ~FileExpired(CachePath(k, ExtOf(compression)))

----------------------------------------------------------------------------
(* Properties of the API client's retry settings                           *)

\* C24 - the retry bound and the base delay that govern the calls of an API
\* client are the instance's retries and retry_delay: a call makes at most
\* retries + 1 attempts, and the sleep after the failed attempt number
\* retry + 1 lasts retry_delay * 2^retry (before jitter).
C24_InjectedRetry ==
    r.fn \in {"login", "_api_call"} =>
        /\ r.max_retries = inst.retries
        /\ r.attempts <= inst.retries + 1
        /\ r.pc = "sleep" =>
              GetDelay(DefaultBaseDelay, r.retry) = inst.retry_delay * (2 ^ r.retry)

----------------------------------------------------------------------------
(* Retry until success                                                     *)

\* C25 - if the wrapped operation raises retryable errors on its first k
\* attempts (0 <= k <= max_retries) and succeeds on attempt k + 1, the wrapper
\* goes on after each of the k errors with one backoff sleep, returns the
\* value of attempt k + 1 after exactly k + 1 invocations and k sleeps, and
\* invokes the operation no more after that.
C25_RetryUntilSuccess ==
    [][/\ \A e \in OpErrors :
            (OpRaises(e) /\ r'.allRetryable /\ r'.attempts <= r.max_retries)
                => (r'.pc = "sleep" /\ r'.sleeps = r.sleeps)
       /\ (Sleep /\ r.allRetryable /\ r.attempts <= r.max_retries)
                => /\ r'.pc = "call"
                   /\ r'.sleeps = r.sleeps + 1
                   /\ r'.attempts = r.attempts
       /\ (OpReturns /\ r.allRetryable /\ r.attempts <= r.max_retries)
                => /\ r'.pc = "done"
                   /\ r'.result = "return"
                   /\ r'.value = "value"
                   /\ r'.attempts = r.attempts + 1
                   /\ r'.sleeps = r.attempts
       /\ (r.pc = "done" /\ r.result = "return")
                => (r'.attempts = r.attempts \/ r'.attempts = 0)
    ]_vars

\* the operation failed with retryable errors max_retries times and succeeded
\* on the last attempt the wrapper allows
C25_Witness ==
    /\ r.fn = "op"
    /\ r.pc = "done"
    /\ r.result = "return"
    /\ r.max_retries >= 1
    /\ r.attempts = r.max_retries + 1
    /\ r.sleeps = r.max_retries

----------------------------------------------------------------------------
(* Properties of run_and_analyze_tests                                     *)

\* C26 - run_and_analyze_tests stops waiting once timeout seconds have
\* elapsed: it is never found polling or sleeping later than one poll
\* interval after the timeout, even if a started test never reports a
\* terminal status.
C26_BoundedWait ==
    wt.pc \in {"poll", "sleep"} => wt.elapsed <= wt.timeout + 1

----------------------------------------------------------------------------
(* The files a get leaves behind                                           *)

\* json.load rejected the text of the file get read for the key
ParseFailed(k) ==
    /\ files[GetPath(k)].exists
    /\ ~FileExpired(GetPath(k))
    /\ ReadFile(GetPath(k)).status = "JSONDecodeError"

\* C27 - get is read-only except for corrupt files: a get on an expired entry
\* returns miss and leaves its file in place; the cache directory after
\* get(id, sub) is the directory before it, unless the file get read for the
\* key failed to parse as JSON, and then that one file is removed and no
\* other file is touched.
C27_Step ==
    \A k \in Keys :
        IsGetStep(k) =>
            /\ (files[GetPath(k)].exists /\ FileExpired(GetPath(k)))
                    => (~lastOp'.ok /\ files' = files)
            /\ files' = IF ParseFailed(k)
                        THEN [files EXCEPT ![GetPath(k)] = NoFile]
                        ELSE files

C27_ReadOnlyGet == [][C27_Step]_vars

\* a get has missed on an expired entry, whose file is still there and still
\* readable
C27_Witness ==
    /\ lastOp.op = "get"
    /\ ~lastOp.ok
    /\ files[GetPath(lastOp.key)].exists
    /\ FileExpired(GetPath(lastOp.key))
    /\ ReadFile(GetPath(lastOp.key)).status = "ok"

----------------------------------------------------------------------------
(* Concurrent writers of one key                                           *)

\* every finished call of set has returned, True or False
C28_BothReturn ==
    \A i \in Writers : ws[i].pc = "done" => ws[i].result \in {"true", "false"}

\* when both calls have finished, the canonical file holds one complete
\* payload
C28_OnePayload ==
    (\A i \in Writers : ws[i].pc = "done") =>
        /\ files[WsFinal].exists
        /\ files[WsFinal].content \in {Encoded(P1, "json"), Encoded(P2, "json")}

\* C28 - concurrent writers of one key: when two set calls on the same key
\* run concurrently, interleaved at the granularity of file operations, both
\* return without raising, and afterwards the canonical file of the key
\* holds exactly one complete payload, P1 or P2, never a mixture or a
\* truncated document.
C28_ConcurrentWriters == C28_BothReturn /\ C28_OnePayload

----------------------------------------------------------------------------
(* Key isolation                                                           *)

\* C29 - key isolation: distinct (test_id, run_id) pairs never share a cache
\* entry; for all pairs (a, b) # (c, d), identifiers containing '_' and the
\* summary sub-ids included, set(a, b, P) and invalidate(a, b) never change
\* what get(c, d) returns.
C29_KeyIsolation ==
    [][\A a \in Ids, b \in SubIds :
          ((\E d \in GoodPayloads : KvSet(a, b, d)) \/ KvInvalidate(a, b))
            => \A c \in Ids, e \in SubIds :
                  <<c, e>> # <<a, b>> => GetOf(c, e)' = GetOf(c, e)
    ]_vars

----------------------------------------------------------------------------
(* A get that removes a file while a set is under way                      *)

\* a reader removes a file only if what the canonical path holds at that
\* moment cannot be parsed
C30_RemoveStep ==
    \A i \in Readers :
        LET p == CachePath(gets[i].key, gets[i].ext) IN
        (GetRemove(i) /\ files[p].exists) => ReadFile(p).status # "ok"

\* with every get and set finished, a further get of a key returns the
\* payload of the last successful set (no time has passed since)
C30_LaterGet ==
    \A k \in Keys :
        (/\ w.pc = "idle"
         /\ \A i \in Readers : ~Reading(i)
         /\ stored[k].valid)
        => (GetOutcome(k).hit /\ GetOutcome(k).data = stored[k].data)

\* C30 - get never destroys a valid entry: a get(K) removes a file only if
\* the content at the canonical path at the moment of removal is
\* unparseable, and in every interleaving of get(K) with a concurrent
\* successful set(K, P), once both have finished, a further get(K) within
\* TTL returns P.
C30_ValidEntryKept == [][C30_RemoveStep]_vars /\ []C30_LaterGet

====
